---- MODULE Spec2Model ----
(***************************************************************************)
(* Model of the collycrawler deduplicating JSONL store                     *)
(* (internal/storage/jsonl.go), of the page handlers that drive it         *)
(* (cmd/crawler/main.go, cmd/crawler/crawler.go) and of the visited-set    *)
(* gate of the scraper (internal/scraper/scraper.go).                      *)
(*                                                                         *)
(* The output file is a sequence of tokens, each standing for a run of     *)
(* bytes: the JSON text of one article, a proper prefix or suffix of such  *)
(* a text (left by a short or split write), or a newline.  Load is         *)
(* modelled on these tokens as bufio.Scanner + json.Unmarshal treat the    *)
(* bytes they stand for.                                                   *)
(***************************************************************************)
EXTENDS Integers, Sequences, FiniteSets, TLC

VARIABLES
    fileExists,      \* the output file exists on disk
    file,            \* content of the output file (sequence of tokens)
    existingHashes,  \* JSONLStorage.existingHashes (set of keys mapped to true)
    backups,         \* backup directory: snapshot name -> content
    clock,           \* wall clock in whole seconds (time.Now() as formatted)
    backupEnabled,   \* config.Storage.BackupEnabled of the constructed store
    fresh,           \* the store was constructed when no output file existed
    faults,          \* number of I/O failures injected so far
    ops,             \* constructions made plus articles handed to the store so far
    last,            \* record of the last store operation (call, inputs, result)
    accepted,        \* first article of each fingerprint handed to a call that returned nil
    created,         \* names of the snapshots created by rotations, in order
    pc,              \* position of each concurrent page handler
    page,            \* page (URL / article) each handler was invoked for
    visitedURLs,     \* Scraper.visitedURLs (set of keys mapped to true)
    outcome,         \* what became of the page of each handler
    app,             \* the program whose handler runs: "main" or "crawler"
    fatal,           \* the Go runtime aborted the process (concurrent map access)
    url,             \* URL handed to the URL functions (sequence of tokens)
    verdict,         \* the function last applied to url, and what it returned
    anchors,         \* the href attributes of the a[href] elements of the page of url
    dom,             \* what the selectors find in the pages the handlers run on
    articles,        \* Scraper.articles (the articles extracted so far)
    stats,           \* the counters of the run, and its dry-run flag
    handled,         \* record of the last article-handler invocation
    maxDepth,        \* config.Crawler.MaxDepth of the run
    collyVisited,    \* URLs marked visited in the collector's store
    queue,           \* requests accepted for a fetch so far, in order (URL, depth)
    starter,         \* Collector.Start: start URLs left, and the position in Visit
    thr,             \* link handler of each accepted request: links left, position
    config,          \* the configuration file as parsed (models.Config)
    boot,            \* start-up of the process: entry point, position, what was done
    proc,            \* the process under a shutdown signal: position, what it reported
    retry            \* failed requests under RetryMiddleware: contexts, positions, counts

storeVars == <<fileExists, file, existingHashes, backups, clock, backupEnabled,
               fresh, faults, ops, last, accepted, created>>
handlerVars == <<pc, page, visitedURLs, outcome, app, fatal>>
urlVars == <<url, verdict, anchors>>
pageVars == <<dom, articles, stats, handled>>
crawlVars == <<maxDepth, collyVisited, queue, starter, thr>>
bootVars == <<config, boot>>
lateVars == <<proc, retry>>
extraVars == <<urlVars, pageVars, crawlVars, bootVars, lateVars>>
vars == <<fileExists, file, existingHashes, backups, clock, backupEnabled,
          fresh, faults, ops, last, accepted, created,
          pc, page, visitedURLs, outcome, app, fatal, extraVars>>

(***************************************************************************)
(* URLs and the functions that judge them (scraper.go URLFilter,           *)
(* ExtractLinks; collector.go IsAllowedURL, matchesPattern,                *)
(* convertGlobToRegex).                                                    *)
(*                                                                         *)
(* A URL string is a sequence of tokens, each standing for a run of        *)
(* characters; "/" is always a token of its own, so no other token holds a *)
(* slash.  "https://host/posts/a-b/" is                                    *)
(* <<"https:", "/", "/", host, "/", "posts", "/", "a", "-", "b", "/">>.    *)
(* Patterns (globs, regular expressions) are sequences of tokens too; in a *)
(* pattern "*", "?" and "$" are always tokens of their own.  The string    *)
(* functions and the regular expressions work on the characters of the     *)
(* tokens.                                                                 *)
(***************************************************************************)
MaxSegs == 3          \* path segments of a URL

AllowedDomains == {"yamada-tech-memo.netlify.app"}   \* target.allowed_domains
Hosts == AllowedDomains \cup {"evil.example"}

\* The path segments URLs are built from: words the patterns name, a page
\* number, a slug, a picture, and the allowed domain used as a path segment.
Segments ==
    { <<"posts">>, <<"page">>, <<"2">>, <<"a", "-", "b">>, <<"a", "-", "js">>,
      <<"tags">>, <<"assets">>, <<"pic", ".jpg">>, <<"yamada-tech-memo.netlify.app">> }

Digits == {"0", "1", "2", "3", "4", "5", "6", "7", "8", "9"}

RECURSIVE PathOf(_, _)
PathOf(segs, slash) ==
    IF segs = <<>> THEN <<>>
    ELSE <<"/">> \o Head(segs) \o
         (IF Len(segs) = 1 THEN (IF slash THEN <<"/">> ELSE <<>>)
          ELSE PathOf(Tail(segs), slash))

URLOf(host, segs, slash) ==
    <<"https:", "/", "/", host>> \o (IF segs = <<>> THEN <<"/">> ELSE PathOf(segs, slash))

URLs ==
    { URLOf(h, segs, slash) :
        h \in Hosts, segs \in UNION {[1..n -> Segments] : n \in 0..MaxSegs},
        slash \in BOOLEAN }

\* url.Parse(u).Host
Host(u) == u[4]

\* The characters of a token, and of a string given by its tokens.
Spell(t) == [i \in 1..Len(t) |-> SubSeq(t, i, i)]

RECURSIVE Chars(_)
Chars(u) == IF u = <<>> THEN <<>> ELSE Spell(Head(u)) \o Chars(Tail(u))

\* u[k:] on tokens
Skip(u, k) == SubSeq(u, k + 1, Len(u))

\* strings.HasPrefix, strings.HasSuffix, strings.Contains
HasPrefix(u, x) ==
    LET cu == Chars(u)
        cx == Chars(x)
    IN Len(cx) <= Len(cu) /\ SubSeq(cu, 1, Len(cx)) = cx

HasSuffix(u, x) ==
    LET cu == Chars(u)
        cx == Chars(x)
    IN Len(cx) <= Len(cu) /\ SubSeq(cu, Len(cu) - Len(cx) + 1, Len(cu)) = cx

Contains(u, x) ==
    LET cu == Chars(u)
        cx == Chars(x)
    IN \E k \in 0..(Len(cu) - Len(cx)) : SubSeq(cu, k + 1, k + Len(cx)) = cx

\* strings.Split(pattern, "*")
RECURSIVE SplitStar(_)
SplitStar(x) ==
    IF \A i \in 1..Len(x) : x[i] # "*" THEN <<x>>
    ELSE LET i == CHOOSE j \in 1..Len(x) :
                      x[j] = "*" /\ \A k \in 1..(j - 1) : x[k] # "*"
         IN <<SubSeq(x, 1, i - 1)>> \o SplitStar(Skip(x, i))

\* regexp.MatchString.  Elements of a regular expression: "$" (end of
\* text), "." (any character), ".*" (any run), "[^/]+" (one or more
\* characters other than a slash), "\\d+" (one or more digits), "\\." (a
\* dot), the group of file extensions; any other character stands for
\* itself.  A dot inside a token of a pattern is the element ".".
StaticExts == {"jpg", "jpeg", "png", "gif", "pdf", "css", "js"}

ExtGroup == "(jpg|jpeg|png|gif|pdf|css|js)"

RegexOps == {"$", ".", ".*", "[^/]+", "\\d+", "\\.", ExtGroup}

RECURSIVE Compile(_)
Compile(re) ==
    IF re = <<>> THEN <<>>
    ELSE (IF Head(re) \in RegexOps THEN <<Head(re)>> ELSE Spell(Head(re)))
         \o Compile(Tail(re))

\* The elements of re from the i-th on match the characters of u from the
\* j-th on.
RECURSIVE MatchHere(_, _, _, _)
MatchHere(re, i, u, j) ==
    IF i > Len(re) THEN TRUE
    ELSE IF re[i] = "$" THEN j > Len(u) /\ MatchHere(re, i + 1, u, j)
    ELSE IF re[i] = ".*"
         THEN \E k \in j..(Len(u) + 1) : MatchHere(re, i + 1, u, k)
    ELSE IF re[i] = "[^/]+"
         THEN \E k \in (j + 1)..(Len(u) + 1) :
                  /\ \A m \in j..(k - 1) : u[m] # "/"
                  /\ MatchHere(re, i + 1, u, k)
    ELSE IF re[i] = "\\d+"
         THEN \E k \in (j + 1)..(Len(u) + 1) :
                  /\ \A m \in j..(k - 1) : u[m] \in Digits
                  /\ MatchHere(re, i + 1, u, k)
    ELSE IF re[i] = ExtGroup
         THEN \E e \in StaticExts :
                  /\ j + Len(e) - 1 <= Len(u)
                  /\ SubSeq(u, j, j + Len(e) - 1) = Spell(e)
                  /\ MatchHere(re, i + 1, u, j + Len(e))
    ELSE IF re[i] = "." THEN j <= Len(u) /\ MatchHere(re, i + 1, u, j + 1)
    ELSE IF re[i] = "\\." THEN j <= Len(u) /\ u[j] = "." /\ MatchHere(re, i + 1, u, j + 1)
    ELSE j <= Len(u) /\ u[j] = re[i] /\ MatchHere(re, i + 1, u, j + 1)

MatchString(re, u) ==
    LET r == Compile(re)
        c == Chars(u)
    IN \E k \in 1..(Len(c) + 1) : MatchHere(r, 1, c, k)

\* NewURLFilter: the patterns built into the filter.
articlePatterns ==
    << <<"/", "posts", "/", "[^/]+", "/", "$">>,
       <<"/", "posts", "/", "\\d+", "/", "[^/]+", "/", "$">>,
       <<"/", "posts", "/", "[^/]+", "/", "[^/]+", "/", "$">>,
       <<"/", "posts", "/", "[^/]+", "-", "[^/]+", "/", "$">>,
       <<"/", "posts", "/", "[^/]+", "_", "[^/]+", "/", "$">> >>

excludePatterns ==
    << <<"/", "posts", "/", "$">>,
       <<"/", "posts", "/", "index", "\\.", "xml", "$">>,
       <<"/", "tags", "/">>,
       <<"/", "categories", "/">>,
       <<"\\.", ExtGroup, "$">> >>

listPatterns ==
    << <<"/", "posts", "/", "$">>,
       <<"/", "posts", "/", "page", "/", "\\d+", "/", "$">>,
       <<"/", "$">> >>

MatchesAny(res, u) == \E i \in 1..Len(res) : MatchString(res[i], u)

IsArticlePage(u) ==
    IF MatchesAny(excludePatterns, u) THEN FALSE
    ELSE MatchesAny(articlePatterns, u)

IsListPage(u) == MatchesAny(listPatterns, u)

\* A filter that lets every page through to extraction.
ShouldExtractContentMutant(u) == TRUE

ShouldExtractContent(u) == IsArticlePage(u)

GetURLType(u) ==
    IF IsArticlePage(u) THEN "article"
    ELSE IF IsListPage(u) THEN "list"
    ELSE "other"

\* target.exclude_patterns of the configuration.
ExcludePatterns ==
    << <<"*", ".jpg">>, <<"*", ".jpeg">>, <<"*", ".png">>, <<"*", ".gif">>,
       <<"*", ".pdf">>, <<"*", ".css">>, <<"*", ".js">>,
       <<"/", "assets", "/", "*">>, <<"/", "images", "/", "*">>,
       <<"/", "posts", "/", "$">>, <<"/", "posts", "/", "index.xml">>,
       <<"/", "tags", "/", "*">>, <<"/", "categories", "/", "*">> >>

\* matchesPattern (collector.go and scraper.go hold the same function).
matchesPattern(u, pattern) ==
    IF (\E i \in 1..Len(pattern) : pattern[i] = "*") /\ Len(SplitStar(pattern)) = 2
    THEN HasPrefix(u, SplitStar(pattern)[1]) /\ HasSuffix(u, SplitStar(pattern)[2])
    ELSE Contains(u, pattern)

\* convertGlobToRegex: "*" becomes ".*" and "?" becomes "."; nothing is
\* escaped.
convertGlobToRegex(glob) ==
    [i \in 1..Len(glob) |-> IF glob[i] = "*" THEN ".*"
                            ELSE IF glob[i] = "?" THEN "."
                            ELSE glob[i]]

\* The collector's DisallowedURLFilters, built by NewCollector.
DisallowedURLFilters == [i \in 1..Len(ExcludePatterns) |-> convertGlobToRegex(ExcludePatterns[i])]

IsAllowedURL(u) ==
    IF \E i \in 1..Len(ExcludePatterns) : matchesPattern(u, ExcludePatterns[i])
    THEN FALSE
    ELSE \E d \in AllowedDomains : Contains(u, <<d>>)

\* ExtractLinks: the two rules a resolved link is kept by.
\* A scraper that kept every link under /posts/ that ends in a slash.
IsArticleLinkMutant(u) ==
    /\ Contains(u, <<"/", "posts", "/">>)
    /\ HasSuffix(u, <<"/">>)

IsArticleLink(u) ==
    /\ Contains(u, <<"/", "posts", "/">>)
    /\ HasSuffix(u, <<"/">>)
    /\ ~HasSuffix(u, <<"/", "posts", "/">>)
    /\ ~Contains(u, <<"/", "page", "/">>)

IsPaginationLink(u) ==
    \/ Contains(u, <<"/", "page", "/">>)
    \/ Contains(u, <<"/", "posts", "/", "page", "/">>)

\* ExtractLinks of a page whose anchors resolve to hrefs, in order: each
\* kept link once.
RECURSIVE ExtractLinks(_, _)
ExtractLinks(hrefs, links) ==
    IF hrefs = <<>> THEN links
    ELSE LET h == Head(hrefs)
             keep == (IsArticleLink(h) \/ IsPaginationLink(h))
                     /\ \A i \in 1..Len(links) : links[i] # h
         IN ExtractLinks(Tail(hrefs), IF keep THEN Append(links, h) ELSE links)

\* handleLinks: the links of the page for which a visit is requested.
RequestedVisits(hrefs) ==
    LET links == ExtractLinks(hrefs, <<>>)
    IN {links[i] : i \in {j \in 1..Len(links) : IsAllowedURL(links[j])}}

(***************************************************************************)
(* Extraction (scraper.go ExtractArticle, extractTitle, extractContent)    *)
(* and the article handlers (crawler.go handleArticle, main.go).           *)
(*                                                                         *)
(* A page is given by what the selectors find in it: the text of its h1    *)
(* and title elements, and the inner markup of the elements matched by the *)
(* content selectors "main" and "article", in document order.  A text is a *)
(* sequence of tokens in which whitespace runs and "|" are tokens of their *)
(* own; markup is a sequence of nodes.                                     *)
(***************************************************************************)
MaxElems == 2         \* elements of a page matched by the selector "main"
MaxPages == 2         \* handler invocations per behaviour

\* selectors.article.title and selectors.article.content of the configuration.
TitleSelectors ==
    <<"h1", ".post-title", ".entry-title", ".post-header h1", "article h1",
      "main h1", "title">>

ContentSelectors ==
    <<"main", "article", ".post-content", ".entry-content", ".content",
      ".post-body", ".markdown", "body">>

Whitespace == {" ", "\n  "}

TitleTexts ==
    { <<>>, <<"My Post">>, <<"My Post", " ", "|", " ", "My Blog">>,
      <<"My", "\n  ", "Post">> }

Markups ==
    { <<>>, <<[tag |-> "p", text |-> <<"x">>]>> }

Doms ==
    [ h1 : {<<>>, <<"My Post">>},
      title : TitleTexts,
      main : UNION {[1..n -> Markups] : n \in 0..MaxElems},
      article : {<<>>, << <<[tag |-> "p", text |-> <<"y">>]>> >>} ]

\* strings.TrimSpace
RECURSIVE TrimLeft(_)
TrimLeft(t) == IF t # <<>> /\ Head(t) \in Whitespace THEN TrimLeft(Tail(t)) ELSE t

RECURSIVE TrimRight(_)
TrimRight(t) ==
    IF t # <<>> /\ t[Len(t)] \in Whitespace THEN TrimRight(SubSeq(t, 1, Len(t) - 1)) ELSE t

TrimSpace(t) == TrimRight(TrimLeft(t))

\* cleanText: every whitespace run becomes one space, then TrimSpace.
cleanText(t) == TrimSpace([i \in 1..Len(t) |-> IF t[i] \in Whitespace THEN " " ELSE t[i]])

\* strings.Split(t, "|")[0]
RECURSIVE FirstPart(_)
FirstPart(t) ==
    IF t = <<>> \/ Head(t) = "|" THEN <<>> ELSE <<Head(t)>> \o FirstPart(Tail(t))

\* e.ChildText(selector): the trimmed text of the elements the selector finds.
ChildText(d, selector) ==
    IF selector = "h1" THEN TrimSpace(d.h1)
    ELSE IF selector = "title" THEN TrimSpace(d.title)
    ELSE <<>>

RECURSIVE TitleFrom(_, _)
TitleFrom(d, selectors) ==
    IF selectors = <<>> THEN <<>>
    ELSE IF ChildText(d, Head(selectors)) # <<>>
         THEN cleanText(ChildText(d, Head(selectors)))
         ELSE TitleFrom(d, Tail(selectors))

extractTitle(d) ==
    IF \E i \in 1..Len(TitleSelectors) : ChildText(d, TitleSelectors[i]) # <<>>
    THEN TitleFrom(d, TitleSelectors)
    ELSE LET pageTitle == cleanText(ChildText(d, "title"))
         IN IF pageTitle = <<>> THEN <<>>
            ELSE IF TrimSpace(FirstPart(pageTitle)) # <<>>
                 THEN TrimSpace(FirstPart(pageTitle))
                 ELSE pageTitle

\* e.ForEach(selector, ...): the inner markup of the matched elements.
Elements(d, selector) ==
    IF selector = "main" THEN d.main
    ELSE IF selector = "article" THEN d.article
    ELSE <<>>

\* cleanHTML: the markup is parsed into a document, the unwanted elements
\* are removed and the document is rendered again (never an empty string).
RemovedTags == {"script", "style", "nav", "header", "footer", "aside"}

RECURSIVE Keep(_)
Keep(nodes) ==
    IF nodes = <<>> THEN <<>>
    ELSE (IF Head(nodes).tag \in RemovedTags THEN <<>> ELSE <<Head(nodes)>>)
         \o Keep(Tail(nodes))

cleanHTML(html) == [doc |-> Keep(html)]

\* The first element of a selector whose markup is not empty (0: none).
FirstFilled(elems) ==
    IF \E i \in 1..Len(elems) : elems[i] # <<>>
    THEN CHOOSE i \in 1..Len(elems) : elems[i] # <<>> /\ \A j \in 1..(i - 1) : elems[j] = <<>>
    ELSE 0

\* extractContent: the cleaned markup, and the selector and element it is
\* taken from (html <<>>: the empty string).
RECURSIVE ContentFrom(_, _)
ContentFrom(d, selectors) ==
    IF selectors = <<>> THEN [html |-> <<>>, selector |-> "none", element |-> 0]
    ELSE LET elems == Elements(d, Head(selectors))
             i == FirstFilled(elems)
         IN IF i # 0
            THEN [html |-> cleanHTML(elems[i]), selector |-> Head(selectors), element |-> i]
            ELSE ContentFrom(d, Tail(selectors))

extractContent(d) == ContentFrom(d, ContentSelectors)

\* htmlToPlainText: the text of the document, cleaned.
RECURSIVE TextOf(_)
TextOf(nodes) == IF nodes = <<>> THEN <<>> ELSE Head(nodes).text \o TextOf(Tail(nodes))

htmlToPlainText(content) == cleanText(TextOf(content.doc))

\* generateContentHash: the digest of its input, which is the input here.
generateContentHash(content) == content

\* A fingerprint that covered the URL of the page too.
HashInputMutant(u, title, plainText) == u \o title \o plainText

\* ExtractArticle: the string handed to generateContentHash for the page of
\* URL u, title + plainText; neither the URL nor the author, the dates or
\* the scrape time are part of it.
HashInput(u, title, plainText) == title \o plainText

Nil == [nil |-> TRUE]

\* ExtractArticle on the page of URL u: the article returned (or Nil), the
\* visited set and the article list after the call, the step at which the
\* call returned, and the title and content it had extracted by then.
ExtractArticle(visited, arts, u, d) ==
    LET none == [article |-> Nil, visited |-> visited \cup {u}, articles |-> arts,
                 reason |-> "none", title |-> <<>>,
                 from |-> [html |-> <<>>, selector |-> "none", element |-> 0]]
        title == extractTitle(d)
        content == extractContent(d)
        plainText == htmlToPlainText(content.html)
        article == [url |-> u, title |-> TrimSpace(title), content |-> content.html,
                    plainText |-> plainText,
                    contentHash |-> generateContentHash(HashInput(u, title, plainText))]
    IN IF u \in visited THEN [none EXCEPT !.visited = visited, !.reason = "visited"]
       ELSE IF ~ShouldExtractContent(u) THEN [none EXCEPT !.reason = "notArticle"]
       ELSE IF title = <<>> THEN [none EXCEPT !.reason = "noTitle"]
       ELSE IF content.html = <<>>
            THEN [none EXCEPT !.reason = "noContent", !.title = title, !.from = content]
       ELSE [none EXCEPT !.article = article, !.articles = Append(arts, article),
                         !.reason = "extracted", !.title = title, !.from = content]

(***************************************************************************)
(* Bounds of the model.                                                    *)
(***************************************************************************)
NumArticles == 4      \* articles (pages) the inputs are drawn from
MaxOps == 2           \* constructions plus articles handed to the store per behaviour
MaxFaults == 1        \* injected I/O failures per behaviour
MaxClock == 1         \* seconds the wall clock may advance
MaxBackupFiles == 2   \* config.Storage.MaxBackupFiles (validated >= 1)
NumHandlers == 2      \* page handlers running concurrently

(***************************************************************************)
(* Library constants the code relies on.                                   *)
(***************************************************************************)
MaxScanTokenSize == 65536   \* bufio.MaxScanTokenSize: limit of bufio.NewScanner
BufioSize == 4096           \* default buffer of bufio.NewWriter

(***************************************************************************)
(* Articles.  Article i was extracted from URL i.  Articles 1 and 2 are    *)
(* two URLs with the same title and text (equal ContentHash); article 3    *)
(* is a long article whose JSON line does not fit the scanner's buffer;    *)
(* article 4 carries a time.Time outside years 0..9999, which json.Marshal *)
(* rejects.                                                                *)
(***************************************************************************)
Articles == 1..NumArticles

\* The page article a is extracted from.  Articles 1 and 2 are found at
\* two URLs; every later article has a URL and a text of its own.
PageURL(a) ==
    IF a = 1 THEN URLOf("yamada-tech-memo.netlify.app", << <<"posts">>, <<"a", "-", "b">> >>, TRUE)
    ELSE URLOf("yamada-tech-memo.netlify.app", << <<"posts">>, <<ToString(a)>> >>, TRUE)

PageDom(a) ==
    [h1 |-> <<"My Post">>, title |-> <<"My Post", " ", "|", " ", "My Blog">>,
     main |-> << <<[tag |-> "p", text |-> <<IF a <= 2 THEN "x" ELSE ToString(a)>>]>> >>,
     article |-> <<>>]

\* The article ExtractArticle returns for each page.
Extracted ==
    [a \in Articles |-> ExtractArticle({}, <<>>, PageURL(a), PageDom(a)).article]

\* The fingerprint of each article, named by the first article that has it
\* (md5 keeps different inputs apart).
Fingerprint ==
    [a \in Articles |->
        CHOOSE b \in Articles :
            /\ Extracted[b].contentHash = Extracted[a].contentHash
            /\ \A c \in Articles :
                  Extracted[c].contentHash = Extracted[a].contentHash => b <= c]

\* article.ContentHash
ContentHash(a) == Fingerprint[a]

JSONLen(a) == IF a = 3 THEN MaxScanTokenSize ELSE 200

Encodable(a) == a # 4

(***************************************************************************)
(* Tokens of the output file.                                              *)
(***************************************************************************)
JSON(a) == [k |-> "json", a |-> a, len |-> JSONLen(a)]
Part(a, n) == [k |-> "part", a |-> a, len |-> n]    \* first n bytes of JSON(a)
Rest(a, n) == [k |-> "rest", a |-> a, len |-> n]    \* last n bytes of JSON(a)
NL == [k |-> "nl", a |-> 0, len |-> 1]

\* Bytes are bytes: a prefix directly followed by the matching suffix is the
\* whole JSON text.
RECURSIVE Join(_)
Join(s) ==
    IF Len(s) < 2 THEN s
    ELSE IF /\ s[1].k = "part" /\ s[2].k = "rest" /\ s[1].a = s[2].a
            /\ s[1].len + s[2].len = JSONLen(s[1].a)
         THEN <<JSON(s[1].a)>> \o Join(SubSeq(s, 3, Len(s)))
         ELSE <<s[1]>> \o Join(Tail(s))

(***************************************************************************)
(* Load (jsonl.go Load): bufio.Scanner splits the bytes into lines, each   *)
(* line is trimmed and decoded; blank and undecodable lines are skipped;   *)
(* a scanner error (a line that does not fit the buffer) fails the call.   *)
(***************************************************************************)
NLIndex(s) ==
    IF \E i \in 1..Len(s) : s[i].k = "nl"
    THEN CHOOSE i \in 1..Len(s) : s[i].k = "nl" /\ \A j \in 1..(i - 1) : s[j].k # "nl"
    ELSE 0

\* bufio.ScanLines: the lines without their newline; a final unterminated
\* line is returned when it is not empty.
RECURSIVE SplitLines(_)
SplitLines(s) ==
    IF s = <<>> THEN <<>>
    ELSE LET i == NLIndex(s)
         IN IF i = 0 THEN <<s>>
            ELSE <<SubSeq(s, 1, i - 1)>> \o SplitLines(SubSeq(s, i + 1, Len(s)))

RECURSIVE LineLen(_)
LineLen(l) == IF l = <<>> THEN 0 ELSE l[1].len + LineLen(Tail(l))

\* The scanner's buffer holds MaxScanTokenSize bytes: a line of that many
\* bytes or more ends the scan with bufio.ErrTooLong.
TooLong(l) == LineLen(l) >= MaxScanTokenSize

\* json.Unmarshal of one trimmed line: it succeeds on exactly one complete
\* JSON text.
Decodes(l) == Len(l) = 1 /\ l[1].k = "json"

RECURSIVE DecodeLines(_)
DecodeLines(ls) ==
    IF ls = <<>> THEN <<>>
    ELSE (IF Decodes(ls[1]) THEN <<ls[1][1].a>> ELSE <<>>) \o DecodeLines(Tail(ls))

Load(exists, data) ==
    IF ~exists THEN [err |-> FALSE, articles |-> <<>>]
    ELSE LET ls == SplitLines(data)
         IN IF \E i \in 1..Len(ls) : TooLong(ls[i])
            THEN [err |-> TRUE, articles |-> <<>>]
            ELSE [err |-> FALSE, articles |-> DecodeLines(ls)]

Range(s) == {s[i] : i \in 1..Len(s)}

\* loadExistingHashes: on a Load error the index is left as it was.
loadExistingHashes(idx, exists, data) ==
    LET r == Load(exists, data)
    IN IF r.err THEN idx
       ELSE idx \cup {ContentHash(a) : a \in Range(r.articles)}

Exists(idx, h) == h \in idx

(***************************************************************************)
(* Backup rotation (createBackup, copyFile, cleanupOldBackups).  A         *)
(* snapshot is named by the wall clock formatted to the second.            *)
(***************************************************************************)
BackupFaults == {"none", "open", "copy", "glob", "remove"}

Put(bk, name, data) ==
    [n \in DOMAIN bk \cup {name} |-> IF n = name THEN data ELSE bk[n]]

Drop(bk, names) == [n \in DOMAIN bk \ names |-> bk[n]]

\* copyFile: os.Open(src), os.Create(dst) (which truncates an existing
\* dst), io.Copy.  "open": os.Open or os.Create fails, nothing is written;
\* "copy": io.Copy fails and leaves the truncated destination behind.
copyFile(bk, name, data, bfault) ==
    IF bfault = "open" THEN [backups |-> bk, err |-> TRUE]
    ELSE IF bfault = "copy" THEN [backups |-> Put(bk, name, <<>>), err |-> TRUE]
    ELSE [backups |-> Put(bk, name, data), err |-> FALSE]

\* sort.Strings(files); files[:len(files)-MaxBackupFiles]: all names but the
\* MaxBackupFiles greatest.
FilesToDelete(names) ==
    {n \in names : Cardinality({m \in names : m > n}) >= MaxBackupFiles}

cleanupOldBackups(bk, bfault) ==
    IF bfault = "glob" THEN [backups |-> bk, err |-> TRUE]
    ELSE IF Cardinality(DOMAIN bk) <= MaxBackupFiles THEN [backups |-> bk, err |-> FALSE]
    ELSE IF bfault = "remove" THEN [backups |-> bk, err |-> FALSE]
    ELSE [backups |-> Drop(bk, FilesToDelete(DOMAIN bk)), err |-> FALSE]

\* createBackup: made = a snapshot file was written by this rotation.
createBackup(exists, data, bk, now, bfault) ==
    IF ~exists THEN [backups |-> bk, err |-> FALSE, made |-> FALSE]
    ELSE LET c == copyFile(bk, now, data, bfault)
         IN IF c.err THEN [backups |-> c.backups, err |-> TRUE, made |-> FALSE]
            ELSE [backups |-> cleanupOldBackups(c.backups, bfault).backups,
                  err |-> FALSE, made |-> TRUE]

\* A store that gave up the write when the rotation before it failed.
BackupErrorAbortsMutant(err) == err

\* Save and SaveBatch log the error of createBackup and go on.
BackupErrorAborts(err) == FALSE

(***************************************************************************)
(* Save (jsonl.go Save).  wfault names the step of the write that fails:   *)
(* "open" (os.OpenFile), "write0" (file.Write writes nothing), "short"     *)
(* (file.Write stops one byte short), "newline" (file.WriteString).        *)
(***************************************************************************)
WriteFaults == {"none", "open", "write0", "short", "newline"}

\* A store that never found a fingerprint in its index.
IsDuplicateMutant(idx, a) == FALSE

\* The duplicate check of Save and SaveBatch: existingHashes[ContentHash].
IsDuplicate(idx, a) == ContentHash(a) \in idx

NoBackup(bk) == [backups |-> bk, err |-> FALSE, made |-> FALSE]

\* A file opened for writing from its beginning.
AppendWriteMutant(data, toks) == Join(toks)

\* A write on the file opened with O_APPEND: the bytes go after the bytes
\* the file holds.
AppendWrite(data, toks) == Join(data \o toks)

\* A store that put the fingerprint into the index before it wrote.
IndexAfterMutant(idx, a, written) == idx \cup {ContentHash(a)}

\* Save: j.existingHashes[article.ContentHash] = true is the last statement
\* before return nil; every error return comes before it.
IndexAfter(idx, a, written) == IF written THEN idx \cup {ContentHash(a)} ELSE idx

\* The result of Save(a) in the current state: the new file and index, the
\* value returned (ret) and what became of the article (outcome).
SaveResult(a, bfault, wfault) ==
    IF IsDuplicate(existingHashes, a)
    THEN [exists |-> fileExists, file |-> file, idx |-> existingHashes,
          backups |-> backups, ret |-> "nil", outcome |-> "duplicate",
          berr |-> FALSE, made |-> FALSE]
    ELSE LET b == IF backupEnabled
                  THEN createBackup(fileExists, file, backups, clock, bfault)
                  ELSE NoBackup(backups)
             failed == [exists |-> fileExists, file |-> file,
                        idx |-> IndexAfter(existingHashes, a, FALSE),
                        backups |-> b.backups, ret |-> "err", outcome |-> "failed",
                        berr |-> b.err, made |-> b.made]
         IN IF BackupErrorAborts(b.err) THEN failed
            ELSE IF wfault = "open" THEN failed
            ELSE IF ~Encodable(a) THEN [failed EXCEPT !.exists = TRUE]
            ELSE IF wfault = "write0" THEN [failed EXCEPT !.exists = TRUE]
            ELSE IF wfault = "short"
                 THEN [failed EXCEPT !.exists = TRUE,
                                     !.file = AppendWrite(file, <<Part(a, JSONLen(a) - 1)>>)]
            ELSE IF wfault = "newline"
                 THEN [failed EXCEPT !.exists = TRUE,
                                     !.file = AppendWrite(file, <<JSON(a)>>)]
            ELSE [failed EXCEPT !.exists = TRUE,
                                !.file = AppendWrite(file, <<JSON(a), NL>>),
                                !.idx = IndexAfter(existingHashes, a, TRUE),
                                !.ret = "nil", !.outcome = "appended"]

(***************************************************************************)
(* SaveBatch (jsonl.go SaveBatch) writes through a bufio.Writer.  The      *)
(* writer is [out: tokens handed to the file, buf: tokens buffered,        *)
(* n: bytes buffered, err: its sticky error, w: writes made on the file].  *)
(* failAt is the number of the write on the file that fails (0: none); a   *)
(* failed write writes nothing.                                            *)
(***************************************************************************)
NewWriter == [out |-> <<>>, buf |-> <<>>, n |-> 0, err |-> FALSE, w |-> 0]

FileWrite(st, toks, failAt) ==
    IF st.w + 1 = failAt THEN [st EXCEPT !.err = TRUE, !.w = @ + 1]
    ELSE [st EXCEPT !.out = @ \o toks, !.w = @ + 1]

\* bufio.Writer.Flush
Flush(st, failAt) ==
    IF st.err \/ st.n = 0 THEN st
    ELSE LET s1 == FileWrite(st, st.buf, failAt)
         IN IF s1.err THEN s1 ELSE [s1 EXCEPT !.buf = <<>>, !.n = 0]

\* bufio.Writer.Write / WriteString of the bytes of one token: bytes that
\* fit are buffered; otherwise the buffer is filled and flushed, and what
\* is left is buffered if it fits an empty buffer and else written directly.
BufWrite(st, tok, failAt) ==
    IF st.err THEN st
    ELSE IF tok.len <= BufioSize - st.n
         THEN [st EXCEPT !.buf = Append(@, tok), !.n = @ + tok.len]
    ELSE IF st.n = 0 THEN FileWrite(st, <<tok>>, failAt)
    ELSE LET avail == BufioSize - st.n
             head == IF avail = 0 THEN <<>> ELSE <<Part(tok.a, avail)>>
             rest == IF avail = 0 THEN tok ELSE Rest(tok.a, tok.len - avail)
             s1 == Flush([st EXCEPT !.buf = @ \o head, !.n = BufioSize], failAt)
         IN IF s1.err THEN s1
            ELSE IF rest.len <= BufioSize
                 THEN [s1 EXCEPT !.buf = <<rest>>, !.n = rest.len]
            ELSE FileWrite(s1, <<rest>>, failAt)

\* The loop of SaveBatch over the articles, acc = [st, idx, saved, skipped].
RECURSIVE BatchLoop(_, _, _)
BatchLoop(arts, acc, failAt) ==
    IF arts = <<>> THEN acc
    ELSE LET a == Head(arts)
             s1 == BufWrite(acc.st, JSON(a), failAt)
             s2 == BufWrite(s1, NL, failAt)
             next ==
                 IF IsDuplicate(acc.idx, a) THEN [acc EXCEPT !.skipped = @ + 1]
                 ELSE IF ~Encodable(a) THEN acc
                 ELSE IF s1.err THEN [acc EXCEPT !.st = s1]
                 ELSE IF s2.err THEN [acc EXCEPT !.st = s2]
                 ELSE [acc EXCEPT !.st = s2, !.idx = @ \cup {ContentHash(a)},
                                  !.saved = @ + 1]
         IN BatchLoop(Tail(arts), next, failAt)

\* A SaveBatch that went on to the rotation and the open with no article.
EmptyBatchReturnsMutant(arts) == FALSE

\* SaveBatch: if len(articles) == 0 { return nil }, its first statement.
EmptyBatchReturns(arts) == arts = <<>>

\* The result of SaveBatch(arts) in the current state; hit = the failing
\* write was reached.
SaveBatchResult(arts, bfault, openFails, failAt) ==
    IF EmptyBatchReturns(arts)
    THEN [exists |-> fileExists, file |-> file, idx |-> existingHashes,
          backups |-> backups, ret |-> "nil", saved |-> 0, skipped |-> 0,
          berr |-> FALSE, made |-> FALSE, hit |-> FALSE]
    ELSE LET b == IF backupEnabled
                  THEN createBackup(fileExists, file, backups, clock, bfault)
                  ELSE NoBackup(backups)
             failed == [exists |-> fileExists, file |-> file, idx |-> existingHashes,
                        backups |-> b.backups, ret |-> "err", saved |-> 0,
                        skipped |-> 0, berr |-> b.err, made |-> b.made, hit |-> FALSE]
             acc == BatchLoop(arts, [st |-> NewWriter, idx |-> existingHashes,
                                     saved |-> 0, skipped |-> 0], failAt)
             end == Flush(acc.st, failAt)     \* defer writer.Flush()
         IN IF BackupErrorAborts(b.err) THEN failed
            ELSE IF openFails THEN failed
            ELSE [failed EXCEPT !.exists = TRUE, !.file = AppendWrite(file, end.out),
                                !.idx = acc.idx, !.ret = "nil",
                                !.saved = acc.saved, !.skipped = acc.skipped,
                                !.hit = end.err]

(***************************************************************************)
(* The store driven sequentially: construction, Save, SaveBatch and the    *)
(* passing of time.  Load and Exists change nothing: they are the          *)
(* operators above, read in any state.                                     *)
(***************************************************************************)
NoOp == [op |-> "none", arts |-> <<>>, ret |-> "nil", outcome |-> "none",
         idxBefore |-> {}, fileBefore |-> <<>>, existedBefore |-> FALSE,
         bfault |-> "none", wfault |-> "none", berr |-> FALSE,
         saved |-> 0, skipped |-> 0, backupsBefore |-> <<>>, made |-> FALSE]

\* The articles of arts that the caller counts as saved, added to acc: the
\* first article of each fingerprint.
RECURSIVE Accept(_, _)
Accept(acc, arts) ==
    IF arts = <<>> THEN acc
    ELSE LET a == Head(arts)
             seen == \E i \in 1..Len(acc) : ContentHash(acc[i]) = ContentHash(a)
         IN Accept(IF seen \/ ~Encodable(a) THEN acc ELSE Append(acc, a), Tail(arts))

\* The batches of at most n articles.
Batches(n) == UNION {[1..m -> Articles] : m \in 0..n}

\* What a call of SaveBatch adds to ops.
Weight(arts) == IF arts = <<>> THEN 1 ELSE Len(arts)

Cost(bfault, wfault) ==
    (IF bfault = "none" THEN 0 ELSE 1) + (IF wfault = "none" THEN 0 ELSE 1)

\* The store as constructed by NewJSONLStorage: on an empty disk, or on what
\* an earlier run left: the output file with the record of article 1 and
\* MaxBackupFiles snapshots of it, made in seconds 1..MaxBackupFiles.
EarlierFile == <<JSON(1), NL>>

InitStore ==
    /\ fileExists \in BOOLEAN
    /\ file = IF fileExists THEN EarlierFile ELSE <<>>
    /\ existingHashes = loadExistingHashes({}, fileExists, file)
    /\ backupEnabled \in BOOLEAN
    /\ backups = IF fileExists /\ backupEnabled
                 THEN [n \in 1..MaxBackupFiles |-> EarlierFile] ELSE <<>>
    /\ created = IF fileExists /\ backupEnabled
                 THEN [n \in 1..MaxBackupFiles |-> n] ELSE <<>>
    /\ clock = MaxBackupFiles + 1
    /\ fresh = ~fileExists
    /\ faults = 0
    /\ ops = 0
    /\ last = NoOp
    /\ accepted = <<>>

\* The process is started again with the same configuration: NewJSONLStorage
\* on the files left on disk.  The index is rebuilt from the output file; a
\* failure of loadExistingHashes is logged only.
NewJSONLStorage ==
    /\ ops < MaxOps
    /\ last.op # "NewJSONLStorage"
    /\ existingHashes' = loadExistingHashes({}, fileExists, file)
    /\ fresh' = ~fileExists
    /\ accepted' = <<>>
    /\ ops' = ops + 1
    /\ last' = [NoOp EXCEPT !.op = "NewJSONLStorage", !.idxBefore = existingHashes,
                            !.fileBefore = file, !.existedBefore = fileExists]
    /\ UNCHANGED <<fileExists, file, backups, clock, backupEnabled, faults, created>>
    /\ UNCHANGED <<handlerVars, extraVars>>

\* Save on the store: what the call does to the files and to the index.
SaveStore(a, bfault, wfault) ==
    /\ ops < MaxOps
    /\ faults + Cost(bfault, wfault) <= MaxFaults
    /\ bfault # "none" => backupEnabled /\ fileExists /\ ~IsDuplicate(existingHashes, a)
    /\ wfault # "none" => ~IsDuplicate(existingHashes, a)
    /\ wfault \in {"write0", "short", "newline"} => Encodable(a)
    /\ \E r \in {SaveResult(a, bfault, wfault)} :
          /\ fileExists' = r.exists
          /\ file' = r.file
          /\ existingHashes' = r.idx
          /\ backups' = r.backups
          /\ accepted' = IF r.ret = "nil" THEN Accept(accepted, <<a>>) ELSE accepted
          /\ created' = IF r.made THEN Append(created, clock) ELSE created
          /\ last' = [NoOp EXCEPT !.op = "Save", !.arts = <<a>>, !.ret = r.ret,
                                  !.outcome = r.outcome, !.idxBefore = existingHashes,
                                  !.fileBefore = file, !.existedBefore = fileExists,
                                  !.bfault = bfault, !.wfault = wfault, !.berr = r.berr,
                                  !.backupsBefore = backups, !.made = r.made]
    /\ faults' = faults + Cost(bfault, wfault)
    /\ ops' = ops + 1
    /\ UNCHANGED <<clock, backupEnabled, fresh>>

\* Save called on its own.
Save(a, bfault, wfault) ==
    /\ SaveStore(a, bfault, wfault)
    /\ UNCHANGED <<handlerVars, extraVars>>

SaveBatch(arts, bfault, openFails, failAt) ==
    /\ ops + Weight(arts) <= MaxOps
    /\ \E wfault \in {IF openFails THEN "open" ELSE IF failAt > 0 THEN "write0" ELSE "none"},
          r \in {SaveBatchResult(arts, bfault, openFails, failAt)} :
          /\ faults + Cost(bfault, wfault) <= MaxFaults
          /\ bfault # "none" => backupEnabled /\ fileExists /\ arts # <<>>
          /\ openFails => arts # <<>> /\ failAt = 0
          /\ failAt > 0 => r.hit
          /\ fileExists' = r.exists
          /\ file' = r.file
          /\ existingHashes' = r.idx
          /\ backups' = r.backups
          /\ accepted' = IF r.ret = "nil" THEN Accept(accepted, arts) ELSE accepted
          /\ created' = IF r.made THEN Append(created, clock) ELSE created
          /\ last' = [NoOp EXCEPT !.op = "SaveBatch", !.arts = arts, !.ret = r.ret,
                                  !.outcome = "batch", !.idxBefore = existingHashes,
                                  !.fileBefore = file, !.existedBefore = fileExists,
                                  !.bfault = bfault, !.wfault = wfault, !.berr = r.berr,
                                  !.saved = r.saved, !.skipped = r.skipped,
                                  !.backupsBefore = backups, !.made = r.made]
          /\ faults' = faults + Cost(bfault, wfault)
    /\ ops' = ops + Weight(arts)
    /\ UNCHANGED <<clock, backupEnabled, fresh>>
    /\ UNCHANGED <<handlerVars, extraVars>>

\* A second of wall-clock time passes.
Tick ==
    /\ clock < MaxBackupFiles + 1 + MaxClock
    /\ clock' = clock + 1
    /\ UNCHANGED <<fileExists, file, existingHashes, backups, backupEnabled,
                   fresh, faults, ops, last, accepted, created>>
    /\ UNCHANGED <<handlerVars, extraVars>>

InitIdle ==
    /\ pc = [p \in 1..NumHandlers |-> "idle"]
    /\ page = [p \in 1..NumHandlers |-> 1]
    /\ visitedURLs = {}
    /\ outcome = [p \in 1..NumHandlers |-> "none"]
    /\ app = "main"
    /\ fatal = FALSE

\* No URL function has been applied.
NoVerdict == [fn |-> "none", out |-> FALSE]

\* No page has been handled.
NoStats ==
    [processed |-> 0, saved |-> 0, skipped |-> 0, errors |-> 0, total |-> 0,
     errorsCount |-> 0, dryRun |-> FALSE]

NoPage == [op |-> "none"]

InitURLIdle ==
    /\ url = <<>>
    /\ verdict = NoVerdict
    /\ anchors = <<>>

InitPageIdle ==
    /\ dom = <<>>
    /\ articles = <<>>
    /\ stats = NoStats
    /\ handled = NoPage

\* No crawl is under way.
NoThread == [state |-> "done", todo |-> <<>>, marking |-> FALSE]

InitCrawlIdle ==
    /\ maxDepth = 0
    /\ collyVisited = {}
    /\ queue = <<>>
    /\ starter = NoThread
    /\ thr = <<>>

\* No start-up is modelled: the process is past it.
NoBoot == [entry |-> "none", pc |-> "running", constructed |-> FALSE,
           visited |-> FALSE, wrote |-> FALSE, rotated |-> FALSE]

InitBootIdle ==
    /\ config = <<>>
    /\ boot = NoBoot

\* No signal has been delivered.
NoSignal == [state |-> "running", inFlight |-> {}]

\* No request has failed.
NoRetry == [pc |-> <<>>]

InitLateIdle == proc = NoSignal /\ retry = NoRetry

InitExtraIdle ==
    InitURLIdle /\ InitPageIdle /\ InitCrawlIdle /\ InitBootIdle /\ InitLateIdle

Init == InitStore /\ InitIdle /\ InitExtraIdle

\* The failures that can be injected into a call in the current state.
BackupFaultsNow(dup) ==
    IF faults < MaxFaults /\ backupEnabled /\ fileExists /\ ~dup
    THEN {"none", "open", "copy"}
         \cup (IF Cardinality(DOMAIN backups \cup {clock}) > MaxBackupFiles
               THEN {"glob", "remove"} ELSE {})
    ELSE {"none"}

WriteFaultsNow(a, bfault) ==
    IF faults + Cost(bfault, "none") < MaxFaults /\ ~IsDuplicate(existingHashes, a)
    THEN IF Encodable(a) THEN WriteFaults ELSE {"none", "open"}
    ELSE {"none"}

\* The writes SaveBatch(arts) makes on the file when none fails.
Writes(arts) ==
    Flush(BatchLoop(arts, [st |-> NewWriter, idx |-> existingHashes,
                           saved |-> 0, skipped |-> 0], 0).st, 0).w

FailAtNow(arts, bfault) ==
    IF faults + Cost(bfault, "none") < MaxFaults /\ arts # <<>>
    THEN 0..Writes(arts) ELSE {0}

\* A client calls Save, or SaveBatch, with any article, or batch, and the
\* call meets any of the failures that can be injected.
SaveCall ==
    \E a \in Articles :
      \E bfault \in BackupFaultsNow(IsDuplicate(existingHashes, a)) :
        \E wfault \in WriteFaultsNow(a, bfault) : Save(a, bfault, wfault)

SaveBatchCall ==
    \E arts \in Batches(MaxOps - ops) :
      \E bfault \in BackupFaultsNow(arts = <<>>) :
        \E failAt \in FailAtNow(arts, bfault) :
          \E openFails \in {FALSE} \cup {failAt = 0 /\ arts # <<>>
                                         /\ faults + Cost(bfault, "none") < MaxFaults} :
            SaveBatch(arts, bfault, openFails, failAt)

Next ==
    \/ NewJSONLStorage
    \/ SaveCall
    \/ SaveBatchCall
    \/ Tick

Spec == Init /\ [][Next]_vars

(***************************************************************************)
(* Concurrent page handlers (main.go and crawler.go handleArticle,         *)
(* scraper.go ExtractArticle, jsonl.go Save).  The collector is created    *)
(* with colly.Async(true): every fetched page runs its OnHTML callbacks in *)
(* the goroutine of its own request, so the article handlers of different  *)
(* pages run concurrently.  Neither the counters, nor Scraper, nor         *)
(* JSONLStorage holds a lock: every access to a shared variable, to the    *)
(* clock or to the disk is a step of its own that the steps of the other   *)
(* handlers interleave with.  Statements that touch no shared state (the   *)
(* extraction from the page, json.Marshal) belong to the step before them. *)
(* x++ on a shared counter and append on the shared slice are a load and a *)
(* store.  Each handler opens the output file for itself with O_APPEND;    *)
(* one write call appends its bytes at the end of the file.                *)
(*                                                                         *)
(* Page 0 is the posts root, a listing page; page a > 0 is the page of     *)
(* article a.  dom[k] is what the selectors find in page k.                *)
(*                                                                         *)
(* pc: a counter name (the counter is about to be loaded) and its Inc      *)
(* (loaded, about to be stored); visitedCheck, visitedSet, append,         *)
(* appendStore (ExtractArticle); exists (crawler.go only); saveCheck,      *)
(* stat, create, copy, glob, remove (createBackup), open, writeJSON,       *)
(* writeNL, setHash (Save); done.  handled[p] holds what handler p has     *)
(* in its local variables and what it has done so far.                     *)
(***************************************************************************)
Handlers == 1..NumHandlers

Pages == 0..NumArticles

URLOfPage(k) ==
    IF k = 0 THEN URLOf("yamada-tech-memo.netlify.app", << <<"posts">> >>, TRUE)
    ELSE PageURL(k)

\* The pages whose URL is classified "article".
ArticlePages == {k \in Pages : GetURLType(URLOfPage(k)) = "article"}

\* Every page with the document of its own.
OwnDoms == [k \in Pages |-> PageDom(k)]

\* A handler that has not run yet.  alone: no other handler was inside its
\* callback at any step this handler has taken.
NoCall ==
    [article |-> Nil, reason |-> "none", title |-> <<>>,
     from |-> [html |-> <<>>, selector |-> "none", element |-> 0],
     reg |-> 0, slice |-> <<>>, name |-> 0, del |-> {}, calls |-> {},
     counted |-> "none", alone |-> TRUE]

\* The document parsed from a response without a body (that of a HEAD
\* request): an html element with an empty head and an empty body.
EmptyDom == [h1 |-> <<>>, title |-> <<>>, main |-> <<>>, article |-> <<>>]

\* The document the callbacks of p run on.
Document(p) ==
    IF p \in DOMAIN queue /\ queue[p].method = "HEAD" THEN EmptyDom ELSE dom[page[p]]

\* The handlers are interchangeable: their pages are listed in order.
InitHandlers ==
    /\ pc = [p \in Handlers |-> "processed"]
    /\ page \in {f \in [Handlers -> Pages] :
                   \A p, q \in Handlers : p < q => f[p] <= f[q]}
    /\ visitedURLs = {}
    /\ outcome = [p \in Handlers |-> "none"]
    /\ app \in {"main", "crawler"}
    /\ fatal = FALSE
    /\ dom = OwnDoms
    /\ articles = <<>>
    /\ stats \in {[NoStats EXCEPT !.dryRun = b] : b \in BOOLEAN}
    /\ handled = [p \in Handlers |-> NoCall]

\* The process runs: the runtime has not aborted it and it has not exited.
Running == ~fatal /\ proc.state # "exited"

\* The positions of a request outside the article handler: its goroutine
\* has not started (idle), OnRequest (total), the fetch, the OnError of
\* collector.go (errorsCount), the handler about to be entered (processed)
\* and the end.
Outside == {"idle", "total", "totalInc", "fetch", "errorsCount", "errorsCountInc",
            "processed", "done"}

\* The article handler of p has been entered and has not returned.
\* ErrorCount++ belongs to the handler after a Save that failed, and to the
\* OnError of CrawlerApp when ExtractArticle has not run.
InFlight(p) ==
    /\ pc[p] \notin Outside
    /\ ~(pc[p] \in {"errors", "errorsInc"} /\ handled[p].reason = "none")

Alone(p) == \A q \in DOMAIN pc \ {p} : ~InFlight(q)

Goto(p, l) == pc' = [pc EXCEPT ![p] = l]

\* Handler p goes on with the local variables loc.
Note(p, loc) == handled' = [handled EXCEPT ![p] = [loc EXCEPT !.alone = @ /\ Alone(p)]]

Result(p, o) == outcome' = [outcome EXCEPT ![p] = o]

\* What no step of a handler changes.
HandlerFrame ==
    /\ UNCHANGED <<page, app, fatal, dom>>
    /\ UNCHANGED <<backupEnabled, clock, fresh, ops, last, accepted>>
    /\ UNCHANGED <<urlVars, crawlVars, bootVars, lateVars>>

diskVars == <<fileExists, file, existingHashes, backups, created, faults>>

\* The counters: processedURLs, savedArticles, skippedArticles of main.go
\* (ProcessedURLs, SavedArticles, SkippedArticles, ErrorCount of
\* CrawlerApp.stats), and TotalURLsVisited and ErrorsCount of the
\* collector's stats.
Counters == {"processed", "saved", "skipped", "errors", "total", "errorsCount"}

Inc ==
    [processed |-> "processedInc", saved |-> "savedInc", skipped |-> "skippedInc",
     errors |-> "errorsInc", total |-> "totalInc", errorsCount |-> "errorsCountInc"]

\* Where the goroutine goes on after counter c: after ProcessedURLs++ the
\* handler calls ExtractArticle; after TotalURLsVisited++ (OnRequest) the
\* request is sent; after ErrorsCount++ (the OnError of collector.go) the
\* OnError of CrawlerApp runs; after the other counters the callback returns.
AfterCount(c) ==
    IF c = "processed" THEN "visitedCheck"
    ELSE IF c = "total" THEN "fetch"
    ELSE IF c = "errorsCount" /\ app = "crawler" THEN "errors"
    ELSE "done"

\* A handler that counted a page without an article as an error.
CountSkippedMutant == "errors"

\* skippedArticles++ (app.stats.SkippedArticles++)
CountSkipped == "skipped"

\* A handler that saved in a dry run too.
StoreCallMutant(st) == "saveCheck"

\* if !*dryRun { store.Save(article) }: the handler calls Save, or goes on
\* to savedArticles++ at once.
StoreCall(st) == IF st.dryRun THEN "saved" ELSE "saveCheck"

\* After Save has returned an error: CrawlerApp counts it, main returns.
AfterError == IF app = "crawler" THEN "errors" ELSE "done"

\* x++, the load: the counter is read.
CounterLoad(p) ==
    /\ Running /\ pc[p] \in Counters
    /\ Note(p, [handled[p] EXCEPT !.reg = stats[pc[p]]])
    /\ Goto(p, Inc[pc[p]])
    /\ UNCHANGED <<outcome, visitedURLs, articles, stats, diskVars>>
    /\ HandlerFrame

\* x++, the store: the value read plus one is written.
CounterStore(p) ==
    /\ Running
    /\ \E c \in Counters :
          /\ pc[p] = Inc[c]
          /\ stats' = [stats EXCEPT ![c] = handled[p].reg + 1]
          /\ Note(p, [handled[p] EXCEPT !.reg = 0,
                         !.counted = IF c \in {"saved", "skipped", "errors"} THEN c ELSE @])
          /\ Goto(p, AfterCount(c))
    /\ UNCHANGED <<outcome, visitedURLs, articles, diskVars>>
    /\ HandlerFrame

\* ExtractArticle: if s.visitedURLs[urlStr] { return nil }
VisitedCheck(p) ==
    /\ Running /\ pc[p] = "visitedCheck"
    /\ IF URLOfPage(page[p]) \in visitedURLs
       THEN /\ Note(p, [handled[p] EXCEPT !.reason = "visited"])
            /\ Result(p, "visited")
            /\ Goto(p, CountSkipped)
       ELSE /\ Note(p, handled[p])
            /\ Goto(p, "visitedSet")
            /\ UNCHANGED outcome
    /\ UNCHANGED <<visitedURLs, articles, stats, diskVars>>
    /\ HandlerFrame

\* ExtractArticle: s.visitedURLs[urlStr] = true, then the extraction, which
\* reads the page only: nil is returned, or the article is built.
VisitedSet(p) ==
    /\ Running /\ pc[p] = "visitedSet"
    /\ visitedURLs' = visitedURLs \cup {URLOfPage(page[p])}
    /\ \E r \in {ExtractArticle({}, <<>>, URLOfPage(page[p]), Document(p))} :
          /\ Note(p, [handled[p] EXCEPT !.article = r.article, !.reason = r.reason,
                                        !.title = r.title, !.from = r.from])
          /\ IF r.article = Nil
             THEN Result(p, "noArticle") /\ Goto(p, CountSkipped)
             ELSE Goto(p, "append") /\ UNCHANGED outcome
    /\ UNCHANGED <<articles, stats, diskVars>>
    /\ HandlerFrame

\* ExtractArticle: s.articles = append(s.articles, article), the load of
\* the slice.
AppendLoad(p) ==
    /\ Running /\ pc[p] = "append"
    /\ Note(p, [handled[p] EXCEPT !.slice = articles])
    /\ Goto(p, "appendStore")
    /\ UNCHANGED <<outcome, visitedURLs, articles, stats, diskVars>>
    /\ HandlerFrame

\* ExtractArticle: s.articles = append(s.articles, article), the store of
\* the slice read with the article after it; ExtractArticle returns.
AppendStore(p) ==
    /\ Running /\ pc[p] = "appendStore"
    /\ articles' = Append(handled[p].slice, handled[p].article)
    /\ Note(p, [handled[p] EXCEPT !.slice = <<>>])
    /\ Goto(p, IF app = "crawler" THEN "exists" ELSE StoreCall(stats))
    /\ Result(p, IF app = "main" /\ StoreCall(stats) = "saved" THEN "dryRun" ELSE outcome[p])
    /\ UNCHANGED <<visitedURLs, stats, diskVars>>
    /\ HandlerFrame

\* handleArticle (crawler.go): exists, err := app.storage.Exists(hash)
ExistsCheck(p) ==
    /\ Running /\ pc[p] = "exists"
    /\ Note(p, [handled[p] EXCEPT !.calls = @ \cup {"Exists"}])
    /\ IF Exists(existingHashes, ContentHash(page[p]))
       THEN Result(p, "exists") /\ Goto(p, CountSkipped)
       ELSE /\ Result(p, IF StoreCall(stats) = "saved" THEN "dryRun" ELSE outcome[p])
            /\ Goto(p, StoreCall(stats))
    /\ UNCHANGED <<visitedURLs, articles, stats, diskVars>>
    /\ HandlerFrame

\* Save: if j.existingHashes[article.ContentHash] { return nil }
SaveCheck(p) ==
    /\ Running /\ pc[p] = "saveCheck"
    /\ Note(p, [handled[p] EXCEPT !.calls = @ \cup {"Save"}])
    /\ IF IsDuplicate(existingHashes, page[p])
       THEN Result(p, "duplicate") /\ Goto(p, "saved")
       ELSE Goto(p, IF backupEnabled THEN "stat" ELSE "open") /\ UNCHANGED outcome
    /\ UNCHANGED <<visitedURLs, articles, stats, diskVars>>
    /\ HandlerFrame

\* createBackup: os.Stat(j.outputFile), and when the file exists
\* time.Now(), which names the snapshot.  (A file that exists at os.Stat
\* exists ever after: the two reads are made at the instant of time.Now.)
BackupStat(p) ==
    /\ Running /\ pc[p] = "stat"
    /\ IF fileExists
       THEN Note(p, [handled[p] EXCEPT !.name = clock]) /\ Goto(p, "create")
       ELSE Note(p, handled[p]) /\ Goto(p, "open")
    /\ UNCHANGED <<outcome, visitedURLs, articles, stats, diskVars>>
    /\ HandlerFrame

\* copyFile: os.Open(src), os.Create(dst): the snapshot exists and is empty.
BackupCreate(p) ==
    /\ Running /\ pc[p] = "create"
    /\ backups' = Put(backups, handled[p].name, <<>>)
    /\ created' = Append(created, handled[p].name)
    /\ Note(p, handled[p])
    /\ Goto(p, "copy")
    /\ UNCHANGED <<outcome, visitedURLs, articles, stats>>
    /\ UNCHANGED <<fileExists, file, existingHashes, faults>>
    /\ HandlerFrame

\* copyFile: io.Copy(destFile, sourceFile) reads the output file to its end
\* and writes it through the descriptor os.Create returned; a snapshot that
\* another handler has removed since stays removed.
BackupCopy(p) ==
    /\ Running /\ pc[p] = "copy"
    /\ backups' = IF handled[p].name \in DOMAIN backups
                  THEN Put(backups, handled[p].name, file) ELSE backups
    /\ Note(p, handled[p])
    /\ Goto(p, "glob")
    /\ UNCHANGED <<outcome, visitedURLs, articles, stats>>
    /\ UNCHANGED <<fileExists, file, existingHashes, created, faults>>
    /\ HandlerFrame

\* cleanupOldBackups: filepath.Glob, sort.Strings, files[:len-MaxBackupFiles]
BackupGlob(p) ==
    /\ Running /\ pc[p] = "glob"
    /\ IF Cardinality(DOMAIN backups) <= MaxBackupFiles
       THEN Note(p, handled[p]) /\ Goto(p, "open")
       ELSE /\ Note(p, [handled[p] EXCEPT !.del = FilesToDelete(DOMAIN backups)])
            /\ Goto(p, "remove")
    /\ UNCHANGED <<outcome, visitedURLs, articles, stats, diskVars>>
    /\ HandlerFrame

\* cleanupOldBackups: os.Remove(file) of the next file to delete (an error,
\* as for a file that is gone, is logged).
BackupRemove(p) ==
    /\ Running /\ pc[p] = "remove"
    /\ \E n \in {m \in handled[p].del : \A l \in handled[p].del : m <= l} :
          /\ backups' = Drop(backups, {n})
          /\ Note(p, [handled[p] EXCEPT !.del = @ \ {n}])
          /\ Goto(p, IF handled[p].del = {n} THEN "open" ELSE "remove")
    /\ UNCHANGED <<outcome, visitedURLs, articles, stats>>
    /\ UNCHANGED <<fileExists, file, existingHashes, created, faults>>
    /\ HandlerFrame

\* Save: os.OpenFile(O_CREATE|O_WRONLY|O_APPEND), which may fail, then
\* json.Marshal; on either error Save returns it.
SaveOpen(p) ==
    /\ Running /\ pc[p] = "open"
    /\ \E fails \in {FALSE} \cup {faults < MaxFaults} :
          IF fails
          THEN /\ faults' = faults + 1
               /\ Result(p, "failed") /\ Goto(p, AfterError)
               /\ UNCHANGED fileExists
          ELSE /\ fileExists' = TRUE
               /\ UNCHANGED faults
               /\ IF Encodable(page[p])
                  THEN Goto(p, "writeJSON") /\ UNCHANGED outcome
                  ELSE Result(p, "failed") /\ Goto(p, AfterError)
    /\ Note(p, handled[p])
    /\ UNCHANGED <<visitedURLs, articles, stats>>
    /\ UNCHANGED <<file, existingHashes, backups, created>>
    /\ HandlerFrame

\* Save: file.Write(jsonData)
SaveWriteJSON(p) ==
    /\ Running /\ pc[p] = "writeJSON"
    /\ file' = Join(file \o <<JSON(page[p])>>)
    /\ Note(p, handled[p])
    /\ Goto(p, "writeNL")
    /\ UNCHANGED <<outcome, visitedURLs, articles, stats>>
    /\ UNCHANGED <<fileExists, existingHashes, backups, created, faults>>
    /\ HandlerFrame

\* Save: file.WriteString("\n")
SaveWriteNL(p) ==
    /\ Running /\ pc[p] = "writeNL"
    /\ file' = Join(file \o <<NL>>)
    /\ Note(p, handled[p])
    /\ Goto(p, "setHash")
    /\ UNCHANGED <<outcome, visitedURLs, articles, stats>>
    /\ UNCHANGED <<fileExists, existingHashes, backups, created, faults>>
    /\ HandlerFrame

\* Save: j.existingHashes[article.ContentHash] = true; return nil
SaveSetHash(p) ==
    /\ Running /\ pc[p] = "setHash"
    /\ existingHashes' = existingHashes \cup {ContentHash(page[p])}
    /\ Note(p, handled[p])
    /\ Result(p, "appended")
    /\ Goto(p, "saved")
    /\ UNCHANGED <<visitedURLs, articles, stats>>
    /\ UNCHANGED <<fileExists, file, backups, created, faults>>
    /\ HandlerFrame

\* An unsynchronised write of a Go map while another goroutine reads or
\* writes the same map is a data race: besides the interleavings above, the
\* runtime may detect it and abort the process ("concurrent map writes").
OnVisited(p) == pc[p] \in {"visitedCheck", "visitedSet"}
OnHashes(p) == pc[p] \in {"exists", "saveCheck", "setHash"}

MapFault(p, q) ==
    /\ Running /\ p # q
    /\ \/ pc[p] = "visitedSet" /\ OnVisited(q)
       \/ pc[p] = "setHash" /\ OnHashes(q)
    /\ fatal' = TRUE
    /\ UNCHANGED <<pc, page, visitedURLs, outcome, app>>
    /\ UNCHANGED <<storeVars, extraVars>>

TickConc == Running /\ Tick

\* A step of handler p on the page: ExtractArticle and the counters.
ExtractStep(p) ==
    \/ CounterLoad(p)
    \/ CounterStore(p)
    \/ VisitedCheck(p)
    \/ VisitedSet(p)
    \/ AppendLoad(p)
    \/ AppendStore(p)

\* A step of handler p on the store.
StoreStep(p) ==
    \/ ExistsCheck(p)
    \/ SaveCheck(p)
    \/ SaveOpen(p)
    \/ SaveWriteJSON(p)
    \/ SaveWriteNL(p)
    \/ SaveSetHash(p)

\* A step of handler p in createBackup.
BackupStep(p) ==
    \/ BackupStat(p)
    \/ BackupCreate(p)
    \/ BackupCopy(p)
    \/ BackupGlob(p)
    \/ BackupRemove(p)

InitConc ==
    /\ InitStore
    /\ InitHandlers
    /\ InitURLIdle
    /\ InitCrawlIdle
    /\ InitBootIdle
    /\ InitLateIdle

NextConc ==
    \/ \E p \in Handlers : ExtractStep(p)
    \/ \E p \in Handlers : StoreStep(p)
    \/ \E p \in Handlers : BackupStep(p)
    \/ \E p, q \in Handlers : MapFault(p, q)
    \/ TickConc

SpecConc == InitConc /\ [][NextConc]_vars

(***************************************************************************)
(* Properties.                                                             *)
(***************************************************************************)
\* The fingerprints of the records in the output file: of the lines that
\* hold exactly one complete JSON text.
FileHashes ==
    {ContentHash(l[1].a) : l \in {m \in Range(SplitLines(file)) : Decodes(m)}}

\* The number of JSON texts of fingerprint h written to the output file.
Written(h) ==
    Cardinality({i \in 1..Len(file) : file[i].k = "json" /\ ContentHash(file[i].a) = h})

LastArticle == last.arts[1]

\* C1: in a sequence of Save calls, a Save of an article whose fingerprint is
\* already in the index appends nothing (file and index stay as they were,
\* nil is returned); a Save that appends writes exactly one record and puts
\* the fingerprint into the index, so that every later Save of the same or
\* of another article with that fingerprint is such a duplicate: two saves
\* of one fingerprint leave one record.
C1_SaveIdempotent ==
    last.op = "Save" =>
        /\ ContentHash(LastArticle) \in last.idxBefore =>
              /\ file = last.fileBefore
              /\ fileExists = last.existedBefore
              /\ existingHashes = last.idxBefore
              /\ last.ret = "nil"
        /\ last.outcome = "appended" =>
              /\ file = last.fileBefore \o <<JSON(LastArticle), NL>>
              /\ ContentHash(LastArticle) \notin last.idxBefore
        /\ last.ret = "nil" => ContentHash(LastArticle) \in existingHashes

\* C1 witness: on a store that started without a file, article 1 was saved
\* and then article 2, another URL with the same fingerprint, was handed to
\* Save: the file holds the one record of article 1.
C1_Witness ==
    /\ fresh /\ ops = 2 /\ faults = 0
    /\ last.op = "Save" /\ LastArticle = 2 /\ last.outcome = "duplicate"
    /\ file = <<JSON(1), NL>>

\* C2: the value Save returns tells the caller what became of the article:
\* nil (ok) is returned only when the record was appended, never for an
\* article skipped as a duplicate.
C2_ReturnTellsOutcome ==
    (last.op = "Save" /\ last.ret = "nil") => last.outcome = "appended"

\* C3: when concurrent handlers save articles of one fingerprint, at most one
\* of them appends a record; the file never holds two JSON texts of one
\* fingerprint.
C3_OneWritePerFingerprint ==
    /\ \A p, q \in Handlers :
          (/\ p # q /\ page[p] \in Articles /\ page[q] \in Articles
           /\ ContentHash(page[p]) = ContentHash(page[q]))
              => ~(outcome[p] = "appended" /\ outcome[q] = "appended")
    /\ \A a \in Articles : Written(ContentHash(a)) <= 1

\* C4: on a store that started with no output file and met no I/O failure,
\* Load returns, without error, exactly the first article of each
\* fingerprint handed to the successful Save and SaveBatch calls, in order.
C4_RoundTrip ==
    (fresh /\ faults = 0) =>
        /\ ~Load(fileExists, file).err
        /\ Load(fileExists, file).articles = accepted

\* C5: right after the store is constructed again on the file an earlier
\* instance wrote (no I/O failure having occurred), Exists is true of the
\* fingerprint of every record in the file.
C5_RestartKnowsFile ==
    (last.op = "NewJSONLStorage" /\ faults = 0) =>
        \A h \in FileHashes : Exists(existingHashes, h)

\* C6: in every state of a constructed store the index is the set of the
\* fingerprints of the records in the output file, also after calls whose
\* write or flush failed.
C6_IndexIsFileHashes == existingHashes = FileHashes

\* C7: when all concurrent handlers have returned, every line of the output
\* file holds exactly one complete JSON record.
C7_OneRecordPerLine ==
    (\A p \in Handlers : pc[p] = "done") =>
        \A i \in 1..Len(SplitLines(file)) : Decodes(SplitLines(file)[i])

\* C8: once MaxBackupFiles or more rotations have been made (none of them
\* failing), exactly MaxBackupFiles snapshots remain, and they are those
\* created by the last MaxBackupFiles rotations.
C8_Retention ==
    (faults = 0 /\ backupEnabled /\ Len(created) >= MaxBackupFiles) =>
        /\ Cardinality(DOMAIN backups) = MaxBackupFiles
        /\ DOMAIN backups =
             {created[i] : i \in (Len(created) - MaxBackupFiles + 1)..Len(created)}

\* The records SaveBatch is to append for arts on index idx: one line for the
\* first article of each fingerprint that is not in idx.
RECURSIVE Pending(_, _)
Pending(arts, idx) ==
    IF arts = <<>> THEN <<>>
    ELSE IF ContentHash(Head(arts)) \in idx \/ ~Encodable(Head(arts))
         THEN Pending(Tail(arts), idx)
         ELSE <<JSON(Head(arts)), NL>>
                  \o Pending(Tail(arts), idx \cup {ContentHash(Head(arts))})

\* C9: when the rotation before a write fails (copy or prune error) and the
\* write itself meets no failure, Save and SaveBatch still append the
\* pending records, add their fingerprints to the index and return nil.
C9_BackupFailureDoesNotBlock ==
    (last.op \in {"Save", "SaveBatch"} /\ last.bfault # "none" /\ last.wfault = "none") =>
        /\ file = last.fileBefore \o Pending(last.arts, last.idxBefore)
        /\ existingHashes = last.idxBefore \cup
               {ContentHash(last.arts[i]) : i \in {j \in 1..Len(last.arts) : Encodable(last.arts[j])}}
        /\ (last.op = "Save" /\ Encodable(LastArticle)) => last.ret = "nil"
        /\ last.op = "SaveBatch" => last.ret = "nil"

\* C9 witness: the copy of a rotation failed and the Save it preceded
\* appended its record.
C9_Witness ==
    /\ last.op = "Save" /\ last.bfault = "copy" /\ last.berr
    /\ last.outcome = "appended"
    /\ file = last.fileBefore \o <<JSON(LastArticle), NL>>

\* C10: of two concurrent handlers invoked for the same URL at most one
\* passes the visited check of ExtractArticle.
Passed(p) ==
    /\ pc[p] \notin {"idle", "processed", "processedInc", "visitedCheck"}
    /\ outcome[p] # "visited"

C10_OnePassesVisitedCheck ==
    \A p, q \in Handlers : (p # q /\ page[p] = page[q]) => ~(Passed(p) /\ Passed(q))

(***************************************************************************)
(* The URL functions applied to any URL.                                   *)
(***************************************************************************)
\* A store without an output file and without backups, which no action of
\* the specifications below touches.
InitNoFile == InitStore /\ fileExists = FALSE /\ backupEnabled = FALSE

InitStatic == InitNoFile /\ InitIdle

InitURL ==
    /\ InitStatic
    /\ InitPageIdle
    /\ InitCrawlIdle
    /\ InitBootIdle
    /\ InitLateIdle
    /\ url \in URLs
    /\ verdict = NoVerdict
    /\ anchors = <<>>

CallIsArticlePage ==
    /\ verdict' = [fn |-> "IsArticlePage", out |-> IsArticlePage(url)]
    /\ UNCHANGED <<url, anchors, storeVars, handlerVars, pageVars, crawlVars, bootVars, lateVars>>

CallIsListPage ==
    /\ verdict' = [fn |-> "IsListPage", out |-> IsListPage(url)]
    /\ UNCHANGED <<url, anchors, storeVars, handlerVars, pageVars, crawlVars, bootVars, lateVars>>

CallGetURLType ==
    /\ verdict' = [fn |-> "GetURLType", out |-> GetURLType(url)]
    /\ UNCHANGED <<url, anchors, storeVars, handlerVars, pageVars, crawlVars, bootVars, lateVars>>

CallIsAllowedURL ==
    /\ verdict' = [fn |-> "IsAllowedURL", out |-> IsAllowedURL(url)]
    /\ UNCHANGED <<url, anchors, storeVars, handlerVars, pageVars, crawlVars, bootVars, lateVars>>

\* The link handler runs on a page whose one anchor resolves to url.
handleLinks ==
    /\ verdict' = [fn |-> "handleLinks", out |-> RequestedVisits(<<url>>)]
    /\ UNCHANGED <<url, anchors, storeVars, handlerVars, pageVars, crawlVars, bootVars, lateVars>>

NextURL ==
    \/ CallIsArticlePage
    \/ CallIsListPage
    \/ CallGetURLType
    \/ CallIsAllowedURL
    \/ handleLinks

SpecURL == InitURL /\ [][NextURL]_vars

(***************************************************************************)
(* Properties of the URL functions.                                        *)
(***************************************************************************)
\* C13: the link handler requests a visit of a discovered link only if
\* IsAllowedURL accepts the link, and a link it accepts has one of the
\* allowed domains as its host.
C13_ScopeGate ==
    verdict.fn = "handleLinks" =>
        \A l \in verdict.out : IsAllowedURL(l) /\ Host(l) \in AllowedDomains

\* A URL matches a configured exclusion pattern, read as a glob in which
\* "*" is any run of characters (the reading NewCollector installs in the
\* collector's DisallowedURLFilters).
MatchesExclusion(u) == MatchesAny(DisallowedURLFilters, u)

\* C14: a URL that matches a configured exclusion pattern is never
\* classified as an article, by IsArticlePage or by GetURLType.
C14_ExcludedNeverArticle ==
    MatchesExclusion(url) =>
        /\ verdict.fn = "GetURLType" => verdict.out # "article"
        /\ verdict.fn = "IsArticlePage" => verdict.out = FALSE

\* C15: a URL that matches an exclusion pattern of the classifier is
\* classified "other", never "list".
C15_ExcludedIsOther ==
    (verdict.fn = "GetURLType" /\ MatchesAny(excludePatterns, url)) =>
        verdict.out = "other"

\* The path of a URL is the site root, the posts root or /posts/page/<n>/.
IsListingPath(u) ==
    LET path == Skip(u, 4)
    IN \/ path = <<"/">>
       \/ path = <<"/", "posts", "/">>
       \/ /\ Len(path) = 7
          /\ SubSeq(path, 1, 5) = <<"/", "posts", "/", "page", "/">>
          /\ path[6] \in Digits
          /\ path[7] = "/"

\* C16: a URL is classified "list" only if its path is the site root, the
\* posts root or a paginated listing path.
C16_ListingOnlyListingPaths ==
    (verdict.fn = "GetURLType" /\ verdict.out = "list") => IsListingPath(url)

(***************************************************************************)
(* The page handlers on pages of any content: the posts root and the page  *)
(* of article 1, both showing the same document, whatever the selectors    *)
(* find in it.  The store has no output file and makes no backups; the run *)
(* is no dry run.                                                          *)
(***************************************************************************)
SharedDoms == {[k \in Pages |-> d] : d \in Doms}

SharedPages == {0, 1}

InitPage ==
    /\ InitNoFile
    /\ InitURLIdle
    /\ InitCrawlIdle
    /\ InitBootIdle
    /\ InitLateIdle
    /\ pc = [p \in Handlers |-> "processed"]
    /\ page \in {f \in [Handlers -> SharedPages] :
                   \A p, q \in Handlers : p < q => f[p] <= f[q]}
    /\ visitedURLs = {}
    /\ outcome = [p \in Handlers |-> "none"]
    /\ app \in {"main", "crawler"}
    /\ fatal = FALSE
    /\ dom \in SharedDoms
    /\ articles = <<>>
    /\ stats = NoStats
    /\ handled = [p \in Handlers |-> NoCall]

NextPage ==
    \/ \E p \in Handlers : ExtractStep(p)
    \/ \E p \in Handlers : StoreStep(p)
    \/ \E p, q \in Handlers : MapFault(p, q)

SpecPage == InitPage /\ [][NextPage]_vars

\* Every handler has returned.
AllDone == \A p \in Handlers : pc[p] = "done"

\* No two handlers were inside their callbacks at the same time.
OneAtATime == \A p \in Handlers : handled[p].alone

\* ExtractArticle has returned to handler p.
Returned(p) == handled[p].reason # "none" /\ pc[p] \notin {"append", "appendStore"}

\* The article list holds an article of the page of handler p.
Listed(p) == \E i \in DOMAIN articles : articles[i].url = URLOfPage(page[p])

(***************************************************************************)
(* Properties of extraction and of the article handlers.                   *)
(***************************************************************************)
\* C17: for a page whose URL is not classified "article", ExtractArticle
\* returns nil, no article of the page is in the scraper's article list and
\* the handler makes no call on the store.
C17_OnlyArticlePagesExtracted ==
    \A p \in Handlers :
        page[p] \notin ArticlePages =>
            /\ handled[p].article = Nil
            /\ ~Listed(p)
            /\ handled[p].calls = {}

\* C17 witness: a handler ran on the posts root, a page that has a title
\* and a body; ExtractArticle returned at the classification step and the
\* handler has returned.
C17_Witness ==
    \E p \in Handlers :
        /\ page[p] = 0 /\ pc[p] = "done"
        /\ handled[p].reason = "notArticle"
        /\ dom[0].h1 # <<>> /\ dom[0].main # <<>> /\ dom[0].main[1] # <<>>
        /\ handled[p].article = Nil

\* The page has no title text, or no body markup, for any selector.
NoTitle(d) == d.h1 = <<>> /\ d.title = <<>>

NoBody(d) ==
    /\ \A i \in 1..Len(d.main) : d.main[i] = <<>>
    /\ \A i \in 1..Len(d.article) : d.article[i] = <<>>

\* The handlers that have gone through ExtractArticle on an article page
\* they were the first to visit.
Extracting == {p \in Handlers : Returned(p) /\ handled[p].reason # "visited"
                                /\ page[p] \in ArticlePages}

\* C18: when a handler runs on an article page that lacks a title or a
\* body, no article is produced and the store is not called; the handler
\* goes on to count the page as skipped and returns, having counted nothing
\* else; no page is counted as an error or as saved; and when the handlers
\* ran one after the other, each such page has added one to the skipped
\* counter.
C18_MissingFieldIsSkip ==
    \A p \in Extracting :
        (NoTitle(dom[page[p]]) \/ NoBody(dom[page[p]])) =>
            /\ handled[p].article = Nil
            /\ ~Listed(p)
            /\ handled[p].calls = {}
            /\ pc[p] \in {"skipped", "skippedInc", "done"}
            /\ pc[p] = "done" => handled[p].counted = "skipped"
            /\ stats.errors = 0 /\ stats.saved = 0
            /\ (AllDone /\ OneAtATime) =>
                  stats.skipped = Cardinality({q \in Handlers : outcome[q] # "none"})

\* C18 witness: the posts root and then an article page with a title and
\* without a body were handled; both were skipped.
C18_Witness ==
    /\ AllDone /\ OneAtATime
    /\ page[1] = 0 /\ page[2] = 1
    /\ handled[2].reason = "noContent"
    /\ ~NoTitle(dom[1]) /\ NoBody(dom[1]) /\ dom[1].main # <<>>
    /\ stats.processed = 2 /\ stats.skipped = 2 /\ stats.errors = 0

\* The first content selector that matches an element of the page.
FirstMatching(d) ==
    IF \E i \in 1..Len(ContentSelectors) : Elements(d, ContentSelectors[i]) # <<>>
    THEN ContentSelectors[CHOOSE i \in 1..Len(ContentSelectors) :
                             /\ Elements(d, ContentSelectors[i]) # <<>>
                             /\ \A j \in 1..(i - 1) : Elements(d, ContentSelectors[j]) = <<>>]
    ELSE "none"

\* C19: the body of an extracted article is the inner markup of the first
\* element of the first content selector that matches any element; and a
\* page is given up for a missing body only if no selector yields content.
C19_FirstMatchFirstElement ==
    \A p \in Handlers :
        /\ handled[p].reason = "extracted" =>
              /\ handled[p].from.selector = FirstMatching(dom[page[p]])
              /\ handled[p].from.element = 1
        /\ handled[p].reason = "noContent" => NoBody(dom[page[p]])

\* C20: for an article page whose only content match is one empty element
\* and whose title selector matches "My Post | My Blog", extraction yields
\* the title "My Post" and gives the page up for its missing body: no
\* article is produced.
C20_TitleScenario ==
    \A p \in Extracting :
        (/\ dom[page[p]].h1 = <<>>
         /\ dom[page[p]].title = <<"My Post", " ", "|", " ", "My Blog">>
         /\ dom[page[p]].main = << <<>> >>
         /\ dom[page[p]].article = <<>>) =>
            /\ handled[p].title = <<"My Post">>
            /\ handled[p].reason = "noContent"
            /\ handled[p].article = Nil

(***************************************************************************)
(* The crawl frontier (collector.go NewCollector and Start, the link       *)
(* handlers of crawler.go and main.go, and the collector's Visit).         *)
(*                                                                         *)
(* The collector is asynchronous: Start calls Visit for each start URL in  *)
(* its own goroutine, every accepted request is fetched in a goroutine of  *)
(* its own, and the link handler of a fetched page calls Request.Visit for *)
(* each of its links.  Visit checks the request (depth, filters, domain),  *)
(* asks the store whether the URL is visited and then marks it visited;    *)
(* the question and the mark are two calls on the store.  With CheckHead   *)
(* the Visit of Start makes a HEAD request first, which is checked without *)
(* the store, and goes on to the GET only if that check passed; the Visit   *)
(* of a link handler (Request.Visit) makes the GET alone.                   *)
(*                                                                         *)
(* This part follows the frontier alone: the calls of Visit, the store of  *)
(* visited URLs and the requests accepted.  The callbacks of a request     *)
(* that leave the frontier alone (OnRequest, OnError, the article handler) *)
(* take their steps in the run of the collector further down, where every  *)
(* request goes through them before its link handler.                      *)
(***************************************************************************)
BaseDepth == 1        \* depth of the requests made by Collector.Visit
MaxDepthCfg == 2      \* crawler.max_depth is drawn from 0..MaxDepthCfg
MaxEnqueued == 10     \* requests accepted per behaviour (the site yields at most 9)

\* crawler.respect_robots_txt of the configuration.
RespectRobotsTxt == TRUE

\* NewCollector: if config.Crawler.RespectRobotsTxt { c.CheckHead = true }
CheckHead == RespectRobotsTxt

\* The pages of the site: two listing pages, two articles, a tag page.
PageP == URLOf("yamada-tech-memo.netlify.app", << <<"posts">>, <<"page">>, <<"2">> >>, TRUE)
PageQ == URLOf("yamada-tech-memo.netlify.app", << <<"page">>, <<"2">> >>, TRUE)
PageA == URLOf("yamada-tech-memo.netlify.app", << <<"posts">>, <<"a", "-", "b">> >>, TRUE)
PageB == URLOf("yamada-tech-memo.netlify.app", << <<"posts">>, <<"2">> >>, TRUE)
PageX == URLOf("yamada-tech-memo.netlify.app", << <<"posts">>, <<"tags">> >>, TRUE)

SitePages == {PageP, PageQ, PageA, PageB, PageX}

\* The anchors of each page, resolved, in document order.
Hrefs(u) ==
    IF u = PageP THEN <<PageA, PageQ, PageX, PageA>>
    ELSE IF u = PageQ THEN <<PageA, PageB>>
    ELSE IF u = PageA THEN <<PageB, PageP>>
    ELSE IF u = PageB THEN <<PageA>>
    ELSE <<>>

\* target.start_urls: one page, a page listed twice, two listing pages, and
\* a listing page with an article it links to.
StartURLLists == { <<PageP>>, <<PageP, PageP>>, <<PageP, PageQ>>, <<PageP, PageA>> }

\* NewCollector: c.MaxDepth is assigned only when the configured value is
\* positive; the collector's own default is 0.
CollyMaxDepth(cfg) == IF cfg > 0 THEN cfg ELSE 0

\* The loop of the link handlers: the links of ExtractLinks that
\* IsAllowedURL accepts, in order.
RECURSIVE AllowedOf(_)
AllowedOf(links) ==
    IF links = <<>> THEN <<>>
    ELSE (IF IsAllowedURL(Head(links)) THEN <<Head(links)>> ELSE <<>>)
         \o AllowedOf(Tail(links))

\* The requests the link handler makes on each page of the site.
VisitsOf == [u \in SitePages |-> AllowedOf(ExtractLinks(Hrefs(u), <<>>))]

\* The pages of the site that c.DisallowedURLFilters turns away.
Disallowed == {u \in SitePages : MatchesAny(DisallowedURLFilters, u)}

\* The collector's check of a request for u with the given method at the
\* given depth, the store holding visited: a MaxDepth of 0 is no limit, and
\* the store is asked for a GET only.
requestCheck(u, method, depth, visited) ==
    IF CollyMaxDepth(maxDepth) > 0 /\ CollyMaxDepth(maxDepth) < depth THEN "ErrMaxDepth"
    ELSE IF u \in Disallowed THEN "ErrForbiddenURL"
    ELSE IF Host(u) \notin AllowedDomains THEN "ErrForbiddenDomain"
    ELSE IF method = "GET" /\ u \in visited THEN "ErrAlreadyVisited"
    ELSE "ok"

Fetching == [state |-> "pending", todo |-> <<>>, marking |-> FALSE]

\* Start before its loop: with CheckHead every Visit begins with a HEAD.
Starting(l) == [state |-> "running", todo |-> l, marking |-> FALSE, head |-> CheckHead]

InitCrawl ==
    /\ InitStatic
    /\ InitURLIdle
    /\ InitPageIdle
    /\ InitBootIdle
    /\ InitLateIdle
    /\ maxDepth \in 0..MaxDepthCfg
    /\ collyVisited = {}
    /\ queue = <<>>
    /\ starter \in {Starting(l) : l \in StartURLLists}
    /\ thr = <<>>

\* Start, c.Visit(startURL) with CheckHead: the HEAD request is checked (the
\* store is not asked) and its fetch is started; when the check fails Visit
\* returns and the loop goes on to the next start URL.
StartHead ==
    /\ starter.todo # <<>>
    /\ starter.head
    /\ Len(queue) < MaxEnqueued
    /\ \E r \in {requestCheck(Head(starter.todo), "HEAD", BaseDepth, collyVisited)} :
          IF r = "ok"
          THEN /\ queue' = Append(queue, [url |-> Head(starter.todo), depth |-> BaseDepth,
                                          method |-> "HEAD"])
               /\ thr' = Append(thr, Fetching)
               /\ starter' = [starter EXCEPT !.head = FALSE]
          ELSE /\ starter' = [starter EXCEPT !.todo = Tail(@), !.head = CheckHead]
               /\ UNCHANGED <<queue, thr>>
    /\ UNCHANGED <<maxDepth, collyVisited>>
    /\ UNCHANGED <<storeVars, handlerVars, urlVars, pageVars, bootVars, lateVars>>

\* Start, c.Visit(startURL): the GET request is checked and the store is
\* asked whether the URL is visited.
StartRequestCheck ==
    /\ starter.todo # <<>>
    /\ ~starter.head
    /\ ~starter.marking
    /\ \E r \in {requestCheck(Head(starter.todo), "GET", BaseDepth, collyVisited)} :
          starter' = IF r = "ok" THEN [starter EXCEPT !.marking = TRUE]
                     ELSE [starter EXCEPT !.todo = Tail(@), !.head = CheckHead]
    /\ UNCHANGED <<maxDepth, collyVisited, queue, thr>>
    /\ UNCHANGED <<storeVars, handlerVars, urlVars, pageVars, bootVars, lateVars>>

\* Start, c.Visit(startURL): the URL is marked visited and the fetch of the
\* GET request is started; the loop goes on to the next start URL.
StartVisited ==
    /\ starter.marking
    /\ Len(queue) < MaxEnqueued
    /\ collyVisited' = collyVisited \cup {Head(starter.todo)}
    /\ queue' = Append(queue, [url |-> Head(starter.todo), depth |-> BaseDepth,
                               method |-> "GET"])
    /\ thr' = Append(thr, Fetching)
    /\ starter' = [starter EXCEPT !.todo = Tail(@), !.marking = FALSE, !.head = CheckHead]
    /\ UNCHANGED maxDepth
    /\ UNCHANGED <<storeVars, handlerVars, urlVars, pageVars, bootVars, lateVars>>

\* The response of HEAD request i has arrived: it has no body, and the link
\* handler finds no link in its document.
HeadResponse(i) ==
    /\ thr[i].state = "pending"
    /\ queue[i].method = "HEAD"
    /\ thr' = [thr EXCEPT ![i].state = "done"]
    /\ UNCHANGED <<maxDepth, collyVisited, queue, starter>>
    /\ UNCHANGED <<storeVars, handlerVars, urlVars, pageVars, bootVars, lateVars>>

\* The page of GET request i has been fetched and its link handler is
\* invoked: ExtractLinks, and the loop over the links begins.
OnHTMLLinks(i) ==
    /\ thr[i].state = "pending"
    /\ queue[i].method = "GET"
    /\ thr' = [thr EXCEPT ![i] = [state |-> "running", todo |-> VisitsOf[queue[i].url],
                                  marking |-> FALSE]]
    /\ UNCHANGED <<maxDepth, collyVisited, queue, starter>>
    /\ UNCHANGED <<storeVars, handlerVars, urlVars, pageVars, bootVars, lateVars>>

\* handleLinks, e.Request.Visit(link): the GET request is checked at the
\* depth of the page plus one and the store is asked whether the link is
\* visited.
VisitRequestCheck(i) ==
    /\ thr[i].state = "running"
    /\ thr[i].todo # <<>>
    /\ ~thr[i].marking
    /\ \E r \in {requestCheck(Head(thr[i].todo), "GET", queue[i].depth + 1, collyVisited)} :
          thr' = IF r = "ok" THEN [thr EXCEPT ![i].marking = TRUE]
                 ELSE [thr EXCEPT ![i].todo = Tail(@)]
    /\ UNCHANGED <<maxDepth, collyVisited, queue, starter>>
    /\ UNCHANGED <<storeVars, handlerVars, urlVars, pageVars, bootVars, lateVars>>

\* handleLinks, e.Request.Visit(link): the link is marked visited and the
\* fetch of the request is started; the loop goes on to the next link.
VisitVisited(i) ==
    /\ thr[i].marking
    /\ Len(queue) < MaxEnqueued
    /\ collyVisited' = collyVisited \cup {Head(thr[i].todo)}
    /\ queue' = Append(queue, [url |-> Head(thr[i].todo), depth |-> queue[i].depth + 1,
                               method |-> "GET"])
    /\ thr' = Append([thr EXCEPT ![i].todo = Tail(@), ![i].marking = FALSE], Fetching)
    /\ UNCHANGED <<maxDepth, starter>>
    /\ UNCHANGED <<storeVars, handlerVars, urlVars, pageVars, bootVars, lateVars>>

NextCrawl ==
    \/ StartHead
    \/ StartRequestCheck
    \/ StartVisited
    \/ \E i \in 1..Len(queue) : HeadResponse(i)
    \/ \E i \in 1..Len(queue) : OnHTMLLinks(i)
    \/ \E i \in 1..Len(queue) : VisitRequestCheck(i)
    \/ \E i \in 1..Len(queue) : VisitVisited(i)

SpecCrawl == InitCrawl /\ [][NextCrawl]_vars

(***************************************************************************)
(* Properties of the crawl frontier.                                       *)
(***************************************************************************)
\* C11: a URL is accepted for a fetch at most once during a crawl, however
\* often it is listed among the start URLs or found on the pages.
C11_EnqueuedAtMostOnce ==
    \A i, j \in 1..Len(queue) :
        (queue[i].method = "GET" /\ queue[j].method = "GET" /\ queue[i].url = queue[j].url)
            => i = j

\* C12: for every configured max_depth, 0 included, no request is accepted
\* more than max_depth links away from the start URLs.
C12_DepthBound ==
    \A i \in 1..Len(queue) : queue[i].depth - BaseDepth <= maxDepth

(***************************************************************************)
(* Properties of SaveBatch and Load.                                       *)
(***************************************************************************)
\* C22: a SaveBatch that meets no I/O failure appends exactly one record
\* for the first article of each fingerprint that was not in the index,
\* and its two counters add up to the length of the batch (an article that
\* cannot be encoded is skipped, the others are still written).
C22_BatchPerItem ==
    (last.op = "SaveBatch" /\ last.bfault = "none" /\ last.wfault = "none") =>
        /\ file = last.fileBefore \o Pending(last.arts, last.idxBefore)
        /\ last.saved + last.skipped = Len(last.arts)

\* C23: whatever the output file holds, Load returns no error and returns
\* the records of all lines that hold one complete JSON text, in file order.
C23_LoadSkipsBadLines ==
    /\ ~Load(fileExists, file).err
    /\ Load(fileExists, file).articles = DecodeLines(SplitLines(file))

(***************************************************************************)
(* Frame of ExtractArticle.                                                *)
(***************************************************************************)
\* C30: a call of ExtractArticle leaves the state shared across pages as it
\* was: as long as the handlers have called nothing but ExtractArticle (no
\* handler has called the store), the visited set, the scraper's article
\* list, the store's index and the output file are as they were before the
\* first call, whether an article or nil was returned.
C30_ExtractArticleIsPure ==
    (/\ \E p \in Handlers : Returned(p)
     /\ \A p \in Handlers : handled[p].calls = {}) =>
        /\ visitedURLs = {}
        /\ articles = <<>>
        /\ existingHashes = {}
        /\ file = <<>>

(***************************************************************************)
(* ExtractLinks on the anchors of a page (scraper.go ExtractLinks,         *)
(* resolveURL).  An href is a sequence of tokens like a URL: an absolute   *)
(* URL, a path that begins with "/", a relative path, the empty string,    *)
(* or a string url.Parse rejects.                                          *)
(***************************************************************************)
MaxLinks == 3         \* a[href] elements of a page

\* An href url.Parse fails on (an invalid percent escape).
BadEscape == "%zz"

RawHrefs ==
    { <<>>,
      <<"/", "posts", "/", "a", "-", "b", "/">>,
      PageA,
      <<"/", "posts", "/">>,
      <<"/", "posts", "/", "page", "/", "2", "/">>,
      <<"2", "/">>,
      <<BadEscape>>,
      URLOf("evil.example", << <<"posts">>, <<"a", "-", "b">> >>, TRUE) }

\* The URL of the directory of base: base up to its last "/".
RECURSIVE DirOf(_)
DirOf(base) ==
    IF base = <<>> \/ base[Len(base)] = "/" THEN base
    ELSE DirOf(SubSeq(base, 1, Len(base) - 1))

\* resolveURL: url.Parse(href), then base.ResolveReference; "" (<<>>) when
\* the href does not parse.
resolveURL(base, href) ==
    IF \E i \in 1..Len(href) : href[i] = BadEscape THEN <<>>
    ELSE IF HasPrefix(href, <<"https:">>) THEN href
    ELSE IF HasPrefix(href, <<"/">>) THEN SubSeq(base, 1, 4) \o href
    ELSE DirOf(base) \o href

\* The loop of ExtractLinks up to the rules: hrefs that are empty or do not
\* resolve are passed over.
RECURSIVE ResolveAll(_, _)
ResolveAll(base, hrefs) ==
    IF hrefs = <<>> THEN <<>>
    ELSE (IF Head(hrefs) = <<>> \/ resolveURL(base, Head(hrefs)) = <<>> THEN <<>>
          ELSE <<resolveURL(base, Head(hrefs))>>)
         \o ResolveAll(base, Tail(hrefs))

InitLinks ==
    /\ InitNoFile
    /\ InitPageIdle
    /\ InitCrawlIdle
    /\ InitBootIdle
    /\ InitLateIdle
    /\ pc = [p \in 1..NumHandlers |-> "idle"]
    /\ page = [p \in 1..NumHandlers |-> 1]
    /\ visitedURLs \in {{}, {PageA}}
    /\ outcome = [p \in 1..NumHandlers |-> "none"]
    /\ app = "main"
    /\ fatal = FALSE
    /\ url \in {PageP, URLOf("yamada-tech-memo.netlify.app", << <<"posts">> >>, TRUE)}
    /\ verdict = NoVerdict
    /\ anchors \in UNION {[1..n -> RawHrefs] : n \in 0..MaxLinks}

\* scraper.ExtractLinks(e) on the page of url.
CallExtractLinks ==
    /\ verdict' = [fn |-> "ExtractLinks",
                   out |-> ExtractLinks(ResolveAll(url, anchors), <<>>),
                   visitedBefore |-> visitedURLs, articlesBefore |-> articles]
    /\ UNCHANGED <<url, anchors, storeVars, handlerVars, pageVars, crawlVars, bootVars, lateVars>>

NextLinks == CallExtractLinks

SpecLinks == InitLinks /\ [][NextLinks]_vars

\* C29: ExtractLinks returns no URL twice; a URL is returned if and only if
\* an href of the page resolves to it and it either contains "/posts/",
\* ends in "/", does not end in "/posts/" and does not contain "/page/", or
\* contains "/page/"; the visited set and the article list are as before
\* the call (a visited URL is returned like any other).
C29_ExtractLinksSet ==
    verdict.fn = "ExtractLinks" =>
        /\ \A i, j \in 1..Len(verdict.out) : verdict.out[i] = verdict.out[j] => i = j
        /\ \A u \in Range(ResolveAll(url, anchors)) \cup Range(verdict.out) :
              u \in Range(verdict.out) <=>
                 /\ u \in Range(ResolveAll(url, anchors))
                 /\ \/ /\ Contains(u, <<"/", "posts", "/">>)
                       /\ HasSuffix(u, <<"/">>)
                       /\ ~HasSuffix(u, <<"/", "posts", "/">>)
                       /\ ~Contains(u, <<"/", "page", "/">>)
                    \/ Contains(u, <<"/", "page", "/">>)
        /\ visitedURLs = verdict.visitedBefore
        /\ articles = verdict.articlesBefore

\* C29 witness: the page links to one visited article by a path and by its
\* absolute URL, and to a paginated listing; the article is returned once.
C29_Witness ==
    /\ verdict.fn = "ExtractLinks"
    /\ anchors = << <<"/", "posts", "/", "a", "-", "b", "/">>, PageA,
                    <<"/", "posts", "/", "page", "/", "2", "/">> >>
    /\ verdict.out = <<PageA, PageP>>
    /\ PageA \in visitedURLs

(***************************************************************************)
(* Start-up (main.go main; crawler.go NewCrawlerApp and Run; config.go     *)
(* LoadConfig and validateConfig; factory.go ValidateStorageConfig and     *)
(* NewStorage; jsonl.go NewJSONLStorage).  The configuration is the parsed *)
(* file: `missing` names one required text field that is empty ("none":    *)
(* all are given), the other fields hold their values.  boot records the   *)
(* entry point, the statement it is at, and what the process has done.     *)
(***************************************************************************)
RequiredFields ==
    <<"app.name", "app.version", "target.base_url", "target.start_urls",
      "target.allowed_domains", "crawler.user_agent", "selectors.article.title",
      "selectors.article.content">>

Configs ==
    [ readable : BOOLEAN,
      missing : {"none"} \cup Range(RequiredFields),
      parallelJobs : {0, 3},
      maxDepth : {-1, 0, MaxDepthCfg},
      outputFile : {"", "data/articles.jsonl"},
      outputFormat : {"jsonl", "JSONL", "csv"},
      backupEnabled : BOOLEAN,
      backupDirectory : {"", "data/backups"},
      maxBackupFiles : {-1, 0, MaxBackupFiles} ]

\* strings.ToLower
ToLower(x) == IF x = "JSONL" THEN "jsonl" ELSE x

\* validateConfig: the first complaint, or "nil".
validateConfig(c) ==
    IF c.missing \in {"app.name", "app.version", "target.base_url", "target.start_urls",
                      "target.allowed_domains"} THEN c.missing
    ELSE IF c.parallelJobs <= 0 THEN "crawler.parallel_jobs"
    ELSE IF c.maxDepth < 0 THEN "crawler.max_depth"
    ELSE IF c.missing # "none" THEN c.missing
    ELSE IF c.outputFile = "" THEN "storage.output_file"
    ELSE "nil"

\* LoadConfig: os.ReadFile and yaml.Unmarshal, then validateConfig.
LoadConfig(c) == IF ~c.readable THEN "read" ELSE validateConfig(c)

ValidateStorageConfig(c) ==
    IF c.outputFile = "" THEN "storage.output_file"
    ELSE IF ToLower(c.outputFormat) # "jsonl" THEN "storage.output_format"
    ELSE IF c.backupEnabled /\ c.backupDirectory = "" THEN "storage.backup_directory"
    ELSE IF c.backupEnabled /\ c.maxBackupFiles <= 0 THEN "storage.max_backup_files"
    ELSE "nil"

\* NewStorage: NewJSONLStorage for the format "jsonl", whose os.MkdirAll of
\* an empty backup directory fails; an error for every other format.
NewStorage(c) ==
    IF ToLower(c.outputFormat) # "jsonl" THEN "format"
    ELSE IF c.backupEnabled /\ c.backupDirectory = "" THEN "mkdir"
    ELSE "nil"

\* The disk holds no output file, or the file an earlier run left (without
\* snapshots); no store is constructed yet.
InitBoot ==
    /\ InitStore
    /\ backupEnabled = FALSE
    /\ InitIdle
    /\ InitURLIdle
    /\ InitPageIdle
    /\ InitCrawlIdle
    /\ InitLateIdle
    /\ config \in Configs
    /\ boot \in {[NoBoot EXCEPT !.entry = "main", !.pc = "LoadConfig"],
                 [NoBoot EXCEPT !.entry = "crawler", !.pc = "LoadConfig"]}

\* What no step of the start-up changes.
BootFrame == UNCHANGED <<config, handlerVars, urlVars, pageVars, crawlVars, lateVars>>

\* config.LoadConfig(path); main ends the process on an error (log.Fatalf).
\* NewCrawlerApp is handed the configuration LoadConfig returned.
BootLoadConfig ==
    /\ boot.pc = "LoadConfig"
    /\ boot' = [boot EXCEPT !.pc = IF LoadConfig(config) # "nil" THEN "fatal"
                                   ELSE IF boot.entry = "main" THEN "ValidateStorageConfig"
                                   ELSE "NewStorage"]
    /\ UNCHANGED storeVars
    /\ BootFrame

\* main: storage.ValidateStorageConfig(cfg), fatal on an error.
BootValidateStorageConfig ==
    /\ boot.pc = "ValidateStorageConfig"
    /\ boot' = [boot EXCEPT !.pc = IF ValidateStorageConfig(config) # "nil" THEN "fatal"
                                   ELSE "NewStorage"]
    /\ UNCHANGED storeVars
    /\ BootFrame

\* main and NewCrawlerApp: storage.NewStorage(cfg), which for "jsonl" is
\* NewJSONLStorage: the store takes its settings from the configuration and
\* builds its index from the output file; then the scraper and the
\* collector are constructed.
BootNewStorage ==
    /\ boot.pc = "NewStorage"
    /\ IF NewStorage(config) # "nil"
       THEN /\ boot' = [boot EXCEPT !.pc = "fatal"]
            /\ UNCHANGED <<backupEnabled, existingHashes, fresh>>
       ELSE /\ boot' = [boot EXCEPT !.pc = "Start", !.constructed = TRUE]
            /\ backupEnabled' = config.backupEnabled
            /\ existingHashes' = loadExistingHashes({}, fileExists, file)
            /\ fresh' = ~fileExists
    /\ UNCHANGED <<fileExists, file, backups, clock, faults, ops, last, accepted, created>>
    /\ BootFrame

\* c.Start() (main) and app.Run() (CrawlerApp): the start URLs are visited.
BootStart ==
    /\ boot.pc = "Start"
    /\ boot' = [boot EXCEPT !.pc = "crawling", !.visited = TRUE]
    /\ UNCHANGED storeVars
    /\ BootFrame

\* A page handler saves an article (the handlers one after the other, no
\* I/O failure): Save with the retention count of the configuration.  With
\* a count of 0 cleanupOldBackups removes every snapshot, the one just made
\* included.  With a negative count files[:len(files)-MaxBackupFiles] asks
\* for more elements than the one or two that Glob returned in a slice
\* without spare capacity: the slice expression panics and the process
\* ends before the write.
BootSave ==
    /\ boot.pc = "crawling"
    /\ ops < MaxOps
    /\ \E a \in Articles :
        \E r \in {SaveResult(a, "none", "none")} :
          \E panic \in {r.made /\ config.maxBackupFiles < 0} :
            /\ fileExists' = IF panic THEN fileExists ELSE r.exists
            /\ file' = IF panic THEN file ELSE r.file
            /\ existingHashes' = IF panic THEN existingHashes ELSE r.idx
            /\ backups' = IF panic THEN Put(backups, clock, file)
                          ELSE IF r.made /\ config.maxBackupFiles = 0 THEN <<>>
                          ELSE r.backups
            /\ created' = IF r.made THEN Append(created, clock) ELSE created
            /\ accepted' = IF r.ret = "nil" /\ ~panic THEN Accept(accepted, <<a>>) ELSE accepted
            /\ last' = [NoOp EXCEPT !.op = "Save", !.arts = <<a>>,
                                    !.ret = IF panic THEN "panic" ELSE r.ret,
                                    !.outcome = IF panic THEN "failed" ELSE r.outcome,
                                    !.idxBefore = existingHashes,
                                    !.fileBefore = file, !.existedBefore = fileExists,
                                    !.backupsBefore = backups, !.made = r.made]
            /\ boot' = [boot EXCEPT !.pc = IF panic THEN "panic" ELSE @,
                                    !.wrote = @ \/ (~panic /\ r.outcome # "duplicate"),
                                    !.rotated = @ \/ r.made]
    /\ ops' = ops + 1
    /\ UNCHANGED <<clock, backupEnabled, fresh, faults>>
    /\ BootFrame

NextBoot ==
    \/ BootLoadConfig
    \/ BootValidateStorageConfig
    \/ BootNewStorage
    \/ BootStart
    \/ BootSave

SpecBoot == InitBoot /\ [][NextBoot]_vars

\* C28: the store is constructed, a URL is visited, the output file is
\* written or a backup rotation is made only if both LoadConfig and
\* ValidateStorageConfig accept the configuration.
C28_ConfigErrorsAreFatal ==
    (boot.constructed \/ boot.visited \/ boot.wrote \/ boot.rotated) =>
        /\ LoadConfig(config) = "nil"
        /\ ValidateStorageConfig(config) = "nil"

(***************************************************************************)
(* Shutdown signal (cmd/crawler/main.go, the goroutine started before      *)
(* c.Start).  main registers SIGINT and SIGTERM with signal.Notify; its    *)
(* goroutine waits on the channel, then calls printFinalStats,             *)
(* store.Close and os.Exit(0), one after the other, while the page         *)
(* handlers of the asynchronous collector keep running in their own        *)
(* goroutines.  CrawlerApp (crawler.go) registers no signal: the Go        *)
(* runtime ends the process on delivery.  os.Exit ends the process at      *)
(* once: no handler takes another step, deferred calls do not run.         *)
(*                                                                         *)
(* proc.state: running, signalled (the goroutine was woken), reported      *)
(* (printFinalStats returned), closed (store.Close returned), exited.      *)
(* proc.inFlight: the handlers that were inside their callback when        *)
(* printFinalStats read the counters.                                      *)
(***************************************************************************)
\* Delivery of SIGINT or SIGTERM: <-sigChan returns in main; without a
\* registered handler (CrawlerApp) the process ends.
SignalNotify ==
    /\ Running /\ proc.state = "running"
    /\ proc' = [proc EXCEPT !.state = IF app = "main" THEN "signalled" ELSE "exited"]
    /\ UNCHANGED <<storeVars, handlerVars, urlVars, pageVars, crawlVars, bootVars, retry>>

\* printFinalStats(startTime, processedURLs, savedArticles, ...)
SignalPrintFinalStats ==
    /\ Running /\ proc.state = "signalled"
    /\ proc' = [state |-> "reported", inFlight |-> {p \in Handlers : InFlight(p)}]
    /\ UNCHANGED <<storeVars, handlerVars, urlVars, pageVars, crawlVars, bootVars, retry>>

\* store.Close(): JSONLStorage.Close logs and returns nil.
SignalClose ==
    /\ Running /\ proc.state = "reported"
    /\ proc' = [proc EXCEPT !.state = "closed"]
    /\ UNCHANGED <<storeVars, handlerVars, urlVars, pageVars, crawlVars, bootVars, retry>>

\* os.Exit(0)
SignalExit ==
    /\ Running /\ proc.state = "closed"
    /\ proc' = [proc EXCEPT !.state = "exited"]
    /\ UNCHANGED <<storeVars, handlerVars, urlVars, pageVars, crawlVars, bootVars, retry>>

\* The handlers on the file an earlier run left, in a run that is no dry run.
InitSignal == InitConc /\ fileExists /\ ~stats.dryRun

NextSignal ==
    \/ \E p \in Handlers : ExtractStep(p)
    \/ \E p \in Handlers : StoreStep(p)
    \/ \E p \in Handlers : BackupStep(p)
    \/ \E p, q \in Handlers : MapFault(p, q)
    \/ SignalNotify
    \/ SignalPrintFinalStats
    \/ SignalClose
    \/ SignalExit

SpecSignal == InitSignal /\ [][NextSignal]_vars

\* C25: when the process has exited after a shutdown signal, no page handler
\* is left inside its callback (so none is between the write of its record
\* and the write of the newline), and the final statistics were reported
\* when no handler was in flight.
C25_GracefulShutdown ==
    proc.state = "exited" =>
        /\ \A p \in Handlers : ~InFlight(p)
        /\ app = "main" => proc.inFlight = {}

\* The process exits while a handler has written its record and not yet the
\* newline after it.
C25_PartialAtExit ==
    ~(proc.state = "exited" /\ app = "main" /\ \E p \in Handlers : pc[p] = "writeNL")

(***************************************************************************)
(* A whole run of the collector (collector.go Start; colly's fetch; the    *)
(* callbacks of collector.go, main.go and crawler.go).                     *)
(*                                                                         *)
(* Visit adds the request to the collector's wait group before its fetch   *)
(* goroutine starts; the goroutine leaves the group when the callbacks of  *)
(* the page have returned.  The goroutine of request i runs OnRequest      *)
(* (TotalURLsVisited++), then the request is sent.  A fetch that fails     *)
(* runs the OnError callbacks (ErrorsCount++, and for CrawlerApp           *)
(* ErrorCount++) and no OnHTML callback.  On a response the OnHTML         *)
(* callbacks run on the document parsed from its body, the article handler *)
(* first, then the link handler (the order of registration); both are      *)
(* registered for "body", which the document of a response without a body  *)
(* (a HEAD request) has too: on it the article handler finds no title and  *)
(* the link handler no link.  Start calls c.Wait after its loop and sets   *)
(* EndTime and Duration when Wait has returned.                            *)
(*                                                                         *)
(* Request i runs in slot i of the handler variables: pc[i] is idle (no    *)
(* request i yet, or its goroutine has not started), total,                *)
(* totalInc (OnRequest), fetch (the request is under way), errorsCount,    *)
(* errorsCountInc, errors, errorsInc (OnError), the positions of the       *)
(* article handler, done.  thr[i].state: pending (up to the end of the     *)
(* article handler), failed (the fetch has failed), running (the loop of   *)
(* the link handler), done.  starter.state: running, returned (Wait has    *)
(* returned), ended (EndTime and Duration are set).                        *)
(***************************************************************************)
MaxRequests == 4      \* slots for the requests of a run (a run makes at most 3)

Slots == 1..MaxRequests

\* The runs followed: a dry run of main on one article page (the handlers
\* of its HEAD and its GET response run concurrently), and a run of
\* CrawlerApp that saves, on one article page that links to the other.
RunConfigs ==
    { [start |-> <<PageA>>, maxDepth |-> 1, app |-> "main", dryRun |-> TRUE],
      [start |-> <<PageB>>, maxDepth |-> 2, app |-> "crawler", dryRun |-> FALSE] }

\* The page of a URL of the site.
PageOf(u) == CHOOSE k \in Pages : URLOfPage(k) = u

InitRun ==
    /\ InitNoFile
    /\ InitURLIdle
    /\ InitBootIdle
    /\ InitLateIdle
    /\ \E c \in RunConfigs :
          /\ maxDepth = c.maxDepth
          /\ starter = Starting(c.start)
          /\ app = c.app
          /\ stats = [NoStats EXCEPT !.dryRun = c.dryRun]
    /\ collyVisited = {}
    /\ queue = <<>>
    /\ thr = <<>>
    /\ pc = [i \in Slots |-> "idle"]
    /\ page = [i \in Slots |-> 0]
    /\ visitedURLs = {}
    /\ outcome = [i \in Slots |-> "none"]
    /\ fatal = FALSE
    /\ dom = OwnDoms
    /\ articles = <<>>
    /\ handled = [i \in Slots |-> NoCall]

RunStartHead == Running /\ Len(queue) < MaxRequests /\ StartHead

RunStartRequestCheck == Running /\ StartRequestCheck

RunStartVisited == Running /\ Len(queue) < MaxRequests /\ StartVisited

\* What no step of a fetch changes besides pc, page, outcome and thr.
FetchFrame ==
    /\ UNCHANGED <<maxDepth, collyVisited, queue, starter>>
    /\ UNCHANGED <<visitedURLs, app, fatal>>
    /\ UNCHANGED <<storeVars, urlVars, pageVars, bootVars, lateVars>>

\* The goroutine of request i starts: the OnRequest callbacks run.
FetchStart(i) ==
    /\ Running /\ pc[i] = "idle"
    /\ Goto(i, "total")
    /\ UNCHANGED <<page, outcome, thr>>
    /\ FetchFrame

\* The request fails (transport error, status >= 400, timeout): the OnError
\* callbacks run.
FetchError(i) ==
    /\ Running /\ pc[i] = "fetch"
    /\ Goto(i, "errorsCount")
    /\ Result(i, "failed")
    /\ thr' = [thr EXCEPT ![i].state = "failed"]
    /\ UNCHANGED page
    /\ FetchFrame

\* The response of request i arrives (the page of a GET request, the
\* headers of a HEAD request): the article handler is invoked on its
\* document.
FetchOK(i) ==
    /\ Running /\ pc[i] = "fetch"
    /\ Goto(i, "processed")
    /\ page' = [page EXCEPT ![i] = PageOf(queue[i].url)]
    /\ UNCHANGED <<outcome, thr>>
    /\ FetchFrame

\* The article handler has returned and the link handler is invoked:
\* ExtractLinks (no link in the document of a HEAD response), and the
\* loop begins.
LinkHandler(i) ==
    /\ Running /\ pc[i] = "done"
    /\ thr[i].state = "pending"
    /\ thr' = [thr EXCEPT ![i].state = "running",
                          ![i].todo = IF queue[i].method = "HEAD" THEN <<>>
                                      ELSE VisitsOf[queue[i].url]]
    /\ UNCHANGED <<pc, page, outcome>>
    /\ FetchFrame

RunVisitRequestCheck(i) == Running /\ VisitRequestCheck(i)

RunVisitVisited(i) == Running /\ Len(queue) < MaxRequests /\ VisitVisited(i)

\* The link handler, or the last OnError callback, returns; the fetch
\* goroutine leaves the wait group.
FetchDone(i) ==
    /\ Running /\ pc[i] = "done"
    /\ \/ thr[i].state = "running" /\ thr[i].todo = <<>>
       \/ thr[i].state = "failed"
    /\ thr' = [thr EXCEPT ![i].state = "done"]
    /\ UNCHANGED <<pc, page, outcome>>
    /\ FetchFrame

\* Start: c.Wait() returns when the wait group is empty.
Wait ==
    /\ Running
    /\ starter.state = "running"
    /\ starter.todo = <<>>
    /\ \A i \in 1..Len(thr) : thr[i].state = "done"
    /\ starter' = [starter EXCEPT !.state = "returned"]
    /\ UNCHANGED <<maxDepth, collyVisited, queue, thr>>
    /\ UNCHANGED <<storeVars, handlerVars, urlVars, pageVars, bootVars, lateVars>>

\* Start: c.stats.EndTime = time.Now(); c.stats.Duration = ...
SetEndTime ==
    /\ Running
    /\ starter.state = "returned"
    /\ starter' = [starter EXCEPT !.state = "ended"]
    /\ UNCHANGED <<maxDepth, collyVisited, queue, thr>>
    /\ UNCHANGED <<storeVars, handlerVars, urlVars, pageVars, bootVars, lateVars>>

Requests == 1..Len(queue)

NextRun ==
    \/ RunStartHead
    \/ RunStartRequestCheck
    \/ RunStartVisited
    \/ \E i \in Requests : FetchStart(i)
    \/ \E i \in Requests : FetchError(i)
    \/ \E i \in Requests : FetchOK(i)
    \/ \E i \in Requests : ExtractStep(i)
    \/ \E i \in Requests : StoreStep(i)
    \/ \E i, j \in Requests : MapFault(i, j)
    \/ \E i \in Requests : LinkHandler(i)
    \/ \E i \in Requests : RunVisitRequestCheck(i)
    \/ \E i \in Requests : RunVisitVisited(i)
    \/ \E i \in Requests : FetchDone(i)
    \/ Wait
    \/ SetEndTime

\* Fair scheduling of the fetch engine: while Start or a request has a
\* step to take, one of them is taken (every request takes finitely many
\* steps, so none is passed over for ever).  The abort is an outcome the
\* runtime may produce, not a step it owes.
Progress == NextRun /\ ~fatal'

FairRun == WF_vars(Progress)

SpecRun == InitRun /\ [][NextRun]_vars /\ FairRun

\* What became of the URL of GET request i: Extracted, Skipped or Failed.
Outcomes == {"Extracted", "Skipped", "Failed"}

OutcomeOf(i) ==
    IF outcome[i] \in {"appended", "dryRun"} THEN "Extracted"
    ELSE IF outcome[i] \in {"visited", "noArticle", "exists", "duplicate"} THEN "Skipped"
    ELSE IF outcome[i] = "failed" THEN "Failed"
    ELSE "none"

\* Every accepted request has ended, and every GET request has reached a
\* terminal outcome.
AllTerminal ==
    \A i \in Requests :
        /\ thr[i].state = "done" /\ pc[i] = "done"
        /\ queue[i].method = "GET" => OutcomeOf(i) \in Outcomes

\* C26: under fair scheduling the run ends: Start returns and sets the end
\* time, and whenever it has returned or set the end time every accepted
\* request has reached its terminal outcome (Extracted, Skipped or Failed).
C26_Termination ==
    /\ [](starter.state \in {"returned", "ended"} => AllTerminal)
    /\ <>(starter.state = "ended")

\* The safety half of C26 alone.
C26_EndOnlyWhenDone == starter.state \in {"returned", "ended"} => AllTerminal

\* The requests accepted stay below the bound of the model.
C26_BoundNotMet == Len(queue) < MaxRequests

(***************************************************************************)
(* Properties of the handlers on the store (SpecConc).                     *)
(***************************************************************************)
\* The store as NewJSONLStorage found it when the run began.
FileAtStart == IF fresh THEN <<>> ELSE EarlierFile
IndexAtStart == loadExistingHashes({}, ~fresh, FileAtStart)
BackupsAtStart ==
    IF ~fresh /\ backupEnabled THEN [n \in 1..MaxBackupFiles |-> EarlierFile] ELSE <<>>

\* The records of the given articles in the output file.
RecordsOf(as) == {i \in DOMAIN file : file[i].k = "json" /\ file[i].a \in as}

\* C21: the fingerprint covers title and plain text only: articles 1 and 2,
\* the same title and text found at two URLs, have equal fingerprints; when
\* the handlers of the two pages have run one after the other, through
\* extraction and the store and without an I/O failure, the later one was
\* turned away as a duplicate (by Save, or by the Exists check of
\* CrawlerApp) and the file holds one record of the two.
C21_FingerprintIgnoresURL ==
    /\ PageURL(1) # PageURL(2)
    /\ Extracted[1].contentHash = Extracted[2].contentHash
    /\ \A p, q \in Handlers :
          (/\ page[p] = 1 /\ page[q] = 2
           /\ pc[p] = "done" /\ pc[q] = "done"
           /\ handled[p].reason = "extracted" /\ handled[q].reason = "extracted"
           /\ handled[p].alone /\ handled[q].alone
           /\ ~stats.dryRun /\ faults = 0) =>
              /\ Cardinality(RecordsOf({1, 2})) = 1
              /\ {outcome[p], outcome[q]} \cap {"duplicate", "exists"} # {}
              /\ Cardinality({r \in {p, q} : outcome[r] = "appended"}) <= 1

\* C21 witness: on a store that began without a file, the handler of main
\* ran on page 1 and then on page 2; Save turned the second away and the
\* file holds the one record of article 1.
C21_Witness ==
    /\ fresh /\ ~stats.dryRun /\ faults = 0 /\ app = "main"
    /\ page[1] = 1 /\ page[2] = 2
    /\ AllDone /\ OneAtATime
    /\ handled[2].article = Extracted[2]
    /\ outcome[1] = "appended" /\ outcome[2] = "duplicate"
    /\ file = <<JSON(1), NL>>

\* C24: in dry-run mode the handlers never call Save: the output file, the
\* snapshots and the index stay as store construction left them, while
\* every page a handler has gone through is classified and extracted (its
\* URL is recorded, and an article page yields its article).
C24_DryRunFrame ==
    stats.dryRun =>
        /\ last.op = "none"
        /\ \A p \in Handlers : "Save" \notin handled[p].calls
        /\ file = FileAtStart /\ fileExists = ~fresh
        /\ backups = BackupsAtStart
        /\ existingHashes = IndexAtStart
        /\ \A p \in Handlers :
              (pc[p] = "done" /\ handled[p].reason # "visited") =>
                 /\ URLOfPage(page[p]) \in visitedURLs
                 /\ page[p] # 0 => handled[p].article = Extracted[page[p]]

\* C24 witness: a dry run in which two article pages were extracted and
\* counted, on a store that has a file from an earlier run.
C24_Witness ==
    /\ stats.dryRun /\ ~fresh /\ backupEnabled
    /\ AllDone
    /\ stats.processed = 2 /\ Len(articles) = 2
    /\ handled[2].article = Extracted[3]

\* C27: at the end of a run that is no dry run and met no I/O failure the
\* saved counter is the number of records appended to the output file
\* during the run; a page whose article was turned away as a duplicate is
\* not counted as saved.  For main and for CrawlerApp.
C27_SavedIsAppended ==
    (AllDone /\ ~stats.dryRun /\ faults = 0) =>
        stats.saved = Cardinality(RecordsOf(Articles)) - Len(DecodeLines(SplitLines(FileAtStart)))

\* C27 for CrawlerApp when its handlers run one after the other.
C27_CrawlerApp == (app = "crawler" /\ OneAtATime) => C27_SavedIsAppended

(***************************************************************************)
(* Frame properties of the store (Spec): what Save and SaveBatch leave     *)
(* alone in the output file, the index and the backup directory.           *)
(***************************************************************************)
\* The bytes of p are the first bytes of s.  The last token of p may be the
\* first bytes of a JSON text whose other bytes came later.
RECURSIVE IsPrefix(_, _)
IsPrefix(p, s) ==
    IF p = <<>> THEN TRUE
    ELSE IF s = <<>> THEN FALSE
    ELSE IF Head(p) = Head(s) THEN IsPrefix(Tail(p), Tail(s))
    ELSE /\ Len(p) = 1
         /\ p[1].k = "part"
         /\ s[1].k \in {"json", "part"}
         /\ s[1].a = p[1].a
         /\ p[1].len <= s[1].len

\* C32: the output file is append-only: after every Save and SaveBatch,
\* failed or not, the bytes the file held before the call are the first
\* bytes it holds after the call, and a file that existed still exists; the
\* rotation of backups is part of these calls and does not change the file.
C32_AppendOnly ==
    last.op \in {"Save", "SaveBatch"} =>
        /\ IsPrefix(last.fileBefore, file)
        /\ last.existedBefore => fileExists

\* A Save on a file with a record: the rotation made a snapshot, the write
\* stopped short, and the file has grown by the bytes written.
C32_Witness ==
    /\ last.op = "Save"
    /\ last.made
    /\ last.wfault = "short"
    /\ last.fileBefore # <<>>
    /\ Len(file) > Len(last.fileBefore)

\* C34: a Save that returns an error (open, encoding or write failure)
\* leaves the fingerprint index as it was, so the fingerprint of its
\* article is still not in the index and the next Save of the article is
\* not skipped as a duplicate.
C34_FailedSaveKeepsIndex ==
    (last.op = "Save" /\ last.ret = "err") =>
        /\ existingHashes = last.idxBefore
        /\ ~IsDuplicate(existingHashes, LastArticle)

\* A Save whose write of the newline failed after the whole JSON text was
\* written: an error is returned and the file has the text.
C34_Witness ==
    /\ last.op = "Save"
    /\ last.ret = "err"
    /\ last.wfault = "newline"
    /\ file # last.fileBefore

\* C35: a Save of an article whose fingerprint is in the index changes
\* nothing: the backup directory, the output file (bytes and existence)
\* and the index are as before the call; and so does a SaveBatch of an
\* empty batch, which makes no snapshot and does not create the file.
C35_SkippedChangesNothing ==
    (\/ last.op = "Save" /\ ContentHash(LastArticle) \in last.idxBefore
     \/ last.op = "SaveBatch" /\ last.arts = <<>>) =>
        /\ backups = last.backupsBefore
        /\ ~last.made
        /\ file = last.fileBefore
        /\ fileExists = last.existedBefore
        /\ existingHashes = last.idxBefore
        /\ last.ret = "nil"

\* A duplicate Save on a store that rotates backups and has a file to copy.
C35_Witness ==
    /\ last.op = "Save"
    /\ ContentHash(LastArticle) \in last.idxBefore
    /\ backupEnabled
    /\ fileExists
    /\ DOMAIN backups # {}

\* An empty SaveBatch on a store that rotates backups and has no file yet.
C35_WitnessEmptyBatch ==
    /\ last.op = "SaveBatch"
    /\ last.arts = <<>>
    /\ backupEnabled
    /\ ~fileExists

\* The name (the second) of the snapshot that the last rotation wrote.
Snapshot == created[Len(created)]

\* C36: a rotation made while the output file exists writes a snapshot
\* that was not there before, named after every earlier snapshot, holding
\* the file as it was before the pending write, and every earlier snapshot
\* that the retention keeps is as it was, also when two writes fall in the
\* same second; with no output file the rotation makes nothing and is no
\* error.
C36_RotationNeverOverwrites ==
    last.op \in {"Save", "SaveBatch"} =>
        /\ last.made =>
              /\ Snapshot \in DOMAIN backups
              /\ backups[Snapshot] = last.fileBefore
              /\ Snapshot \notin DOMAIN last.backupsBefore
              /\ \A n \in DOMAIN last.backupsBefore : n < Snapshot
              /\ \A n \in DOMAIN backups \ {Snapshot} :
                    n \in DOMAIN last.backupsBefore /\ backups[n] = last.backupsBefore[n]
        /\ ~last.existedBefore => ~last.made /\ ~last.berr /\ backups = last.backupsBefore

\* C36 for rotations that are the first of their second.
C36_FirstOfSecond ==
    (/\ last.op \in {"Save", "SaveBatch"}
     /\ last.made => Snapshot \notin DOMAIN last.backupsBefore) =>
        C36_RotationNeverOverwrites

\* A rotation in a second that already has a snapshot.
C36_SameSecond ==
    /\ last.op \in {"Save", "SaveBatch"}
    /\ last.made
    /\ Snapshot \in DOMAIN last.backupsBefore
    /\ backups[Snapshot] # last.backupsBefore[Snapshot]


(***************************************************************************)
(* Accounting of the page handlers (SpecPage).                             *)
(***************************************************************************)
\* C33: every invocation of the page handler adds one to the processed
\* counter and one to exactly one of the saved, skipped and error counters,
\* a Save that returns an error being counted as an error, with either
\* entry point and with handlers that run concurrently: when all handlers
\* have returned, processed is their number and
\* processed = saved + skipped + errors.
C33_AccountedOnce ==
    AllDone =>
        /\ stats.processed = NumHandlers
        /\ stats.processed = stats.saved + stats.skipped + stats.errors
        /\ \A p \in Handlers : outcome[p] = "failed" => handled[p].counted = "errors"

\* C33 for CrawlerApp.handleArticle, one invocation at a time.
C33_CrawlerApp == (app = "crawler" /\ OneAtATime) => C33_AccountedOnce

\* The handlers of main have run one after the other and one of them has
\* returned after a Save that returned an error: it has counted the page as
\* processed and as nothing else.
C33_MainSaveError ==
    /\ app = "main"
    /\ AllDone /\ OneAtATime
    /\ \E p \in Handlers : outcome[p] = "failed" /\ handled[p].counted = "none"
    /\ stats.processed = NumHandlers
    /\ stats.processed = stats.saved + stats.skipped + stats.errors + 1

\* Two handlers of CrawlerApp have both loaded the processed counter before
\* either stored it: one of the two increments is lost.
C33_LostUpdate ==
    /\ app = "crawler"
    /\ AllDone
    /\ stats.processed < NumHandlers

(***************************************************************************)
(* The two readings of target.exclude_patterns (SpecURL).                  *)
(***************************************************************************)
\* C38: for every configured exclusion pattern and every URL, matchesPattern
\* (the test of IsAllowedURL) is true exactly if the regular expression
\* that convertGlobToRegex builds from the pattern (the collector's
\* DisallowedURLFilters) matches the URL; so IsAllowedURL turns away on an
\* exclusion pattern exactly the URLs the collector's filter turns away.
C38_MatchersAgree ==
    verdict.fn = "IsAllowedURL" =>
        /\ \A i \in 1..Len(ExcludePatterns) :
              matchesPattern(url, ExcludePatterns[i])
                  <=> MatchString(DisallowedURLFilters[i], url)
        /\ (\E i \in 1..Len(ExcludePatterns) : matchesPattern(url, ExcludePatterns[i]))
              <=> MatchesExclusion(url)

\* What does hold: a URL that matchesPattern turns away is matched by the
\* regular expression of the same pattern, unless the pattern has a "$".
C38_GlobImpliesRegex ==
    verdict.fn = "IsAllowedURL" =>
        \A i \in 1..Len(ExcludePatterns) :
            (matchesPattern(url, ExcludePatterns[i])
                /\ \A k \in 1..Len(ExcludePatterns[i]) : ExcludePatterns[i][k] # "$")
                => MatchString(DisallowedURLFilters[i], url)

\* An absolute URL under /tags/ of the site: IsAllowedURL accepts it and
\* the collector's filter matches it.
C38_TagsURL ==
    /\ verdict.fn = "IsAllowedURL"
    /\ url = URLOf("yamada-tech-memo.netlify.app", << <<"tags">>, <<"a", "-", "b">> >>, TRUE)
    /\ verdict.out = TRUE
    /\ ~matchesPattern(url, <<"/", "tags", "/", "*">>)
    /\ MatchString(convertGlobToRegex(<<"/", "tags", "/", "*">>), url)

(***************************************************************************)
(* The fingerprint of two pages (SpecDigest): ExtractArticle is applied to *)
(* pages whose titles and texts differ in where the title ends.            *)
(***************************************************************************)
\* Headings and paragraph texts of the pages; a token is a run of
\* characters without whitespace.
DigestTitles == { <<"My">>, <<"My", "Post">>, <<"Other">> }

DigestTexts == { <<"x">>, <<"Post", "x">> }

DigestDoms ==
    [ h1 : DigestTitles,
      title : {<<>>},
      main : { << <<[tag |-> "p", text |-> t]>> >> : t \in DigestTexts },
      article : {<<>>} ]

InitDigest ==
    /\ InitNoFile
    /\ InitURLIdle
    /\ InitCrawlIdle
    /\ InitBootIdle
    /\ InitLateIdle
    /\ pc = [p \in 1..NumHandlers |-> "idle"]
    /\ page = [p \in 1..NumHandlers |-> 1]
    /\ visitedURLs = {}
    /\ outcome = [p \in 1..NumHandlers |-> "none"]
    /\ app = "main"
    /\ fatal = FALSE
    /\ dom = <<>>
    /\ articles = <<>>
    /\ stats = NoStats
    /\ handled = NoPage

\* ExtractArticle on the page of article a, whose document is d.
ExtractPage(a, d) ==
    /\ Len(articles) < MaxPages
    /\ \E r \in {ExtractArticle(visitedURLs, articles, PageURL(a), d)} :
          /\ visitedURLs' = r.visited
          /\ articles' = r.articles
          /\ handled' = [op |-> "ExtractArticle", url |-> PageURL(a),
                         article |-> r.article, reason |-> r.reason]
    /\ dom' = d
    /\ UNCHANGED <<stats, storeVars, urlVars, crawlVars, bootVars, lateVars, pc, page,
                   outcome, app, fatal>>

NextDigest == \E a \in Articles, d \in DigestDoms : ExtractPage(a, d)

SpecDigest == InitDigest /\ [][NextDigest]_vars

\* C37: the string handed to the digest, title followed by plaintext with
\* nothing between them, differs for any two different pairs of title and
\* plaintext: two extracted articles with the same fingerprint have the
\* same title and the same plaintext, so the store never drops an article
\* as the duplicate of one with another title or another plaintext.
C37_DigestInputInjective ==
    \A i, j \in 1..Len(articles) :
        articles[i].contentHash = articles[j].contentHash =>
            /\ articles[i].title = articles[j].title
            /\ articles[i].plainText = articles[j].plainText

\* Two articles extracted from pages with different headings and different
\* texts that have the same fingerprint.
C37_Collision ==
    /\ Len(articles) = 2
    /\ articles[1].title # articles[2].title
    /\ articles[1].plainText # articles[2].plainText
    /\ articles[1].contentHash = articles[2].contentHash

\* What holds: articles with the same title and the same plaintext have the
\* same fingerprint, whatever their URLs.
C37_SamePairSameDigest ==
    \A i, j \in 1..Len(articles) :
        (articles[i].title = articles[j].title
            /\ articles[i].plainText = articles[j].plainText) =>
            articles[i].contentHash = articles[j].contentHash

(***************************************************************************)
(* The published date (SpecDate).  An element of the page that a date      *)
(* selector can match is [sel: the date selectors that match it, datetime: *)
(* its datetime attribute (<<>>: none or empty), text: its text].          *)
(***************************************************************************)
MaxDateElems == 2     \* elements of a page matched by date selectors

\* selectors.article.published_date, split at the commas and trimmed.
DateSelectors ==
    <<"time[datetime]", ".post-date", ".published", ".date", ".post-meta time",
      ".meta time">>

\* parseDate: the layouts tried, in order.
formats ==
    <<"RFC3339", "RFC3339Nano", "2006-01-02T15:04:05Z", "2006-01-02T15:04:05",
      "2006-01-02 15:04:05", "2006-01-02", "January 2, 2006", "Jan 2, 2006",
      "2006/01/02">>

\* time.Parse(format, value) on the date strings of the model: the instant
\* (Nil: an error).  A string that is no date in any layout parses nowhere.
Parse(format, value) ==
    IF value = <<"2024-01-15T10:30:00Z">>
          /\ format \in {"RFC3339", "RFC3339Nano", "2006-01-02T15:04:05Z"}
    THEN [day |-> "2024-01-15", time |-> "10:30:00"]
    ELSE IF value = <<"2024-01-15">> /\ format = "2006-01-02"
    THEN [day |-> "2024-01-15", time |-> "00:00:00"]
    ELSE IF value = <<"January", " ", "16,", " ", "2024">> /\ format = "January 2, 2006"
    THEN [day |-> "2024-01-16", time |-> "00:00:00"]
    ELSE IF value = <<"2024/01/16">> /\ format = "2006/01/02"
    THEN [day |-> "2024-01-16", time |-> "00:00:00"]
    ELSE Nil

RECURSIVE ParseFirst(_, _)
ParseFirst(fs, value) ==
    IF fs = <<>> THEN Nil
    ELSE IF Parse(Head(fs), value) # Nil THEN Parse(Head(fs), value)
    ELSE ParseFirst(Tail(fs), value)

\* parseDate: strings.TrimSpace, then the first layout that parses.
parseDate(dateStr) == ParseFirst(formats, TrimSpace(dateStr))

\* An extraction that read the visible text before the attribute.
DateStringMutant(el) ==
    IF el.text # <<>> THEN [str |-> el.text, from |-> "text"]
    ELSE [str |-> el.datetime, from |-> "datetime"]

\* The callback of e.ForEach in extractPublishedDate: the datetime attribute
\* if it is not empty, else the text of the element.
DateString(el) ==
    IF el.datetime # <<>> THEN [str |-> el.datetime, from |-> "datetime"]
    ELSE [str |-> el.text, from |-> "text"]

\* e.ForEach(selector, ...): dateStr is set from the first matched element
\* that gives a string that is not empty.
RECURSIVE DateStrOf(_, _, _)
DateStrOf(els, selector, i) ==
    IF i > Len(els) THEN [str |-> <<>>, from |-> "none", elem |-> 0]
    ELSE IF selector \in els[i].sel /\ DateString(els[i]).str # <<>>
         THEN [str |-> DateString(els[i]).str, from |-> DateString(els[i]).from,
               elem |-> i]
         ELSE DateStrOf(els, selector, i + 1)

\* extractPublishedDate over the selectors: the first date string that
\* parses; date Nil if there is none.
RECURSIVE DateFrom(_, _)
DateFrom(els, selectors) ==
    IF selectors = <<>> THEN [date |-> Nil, from |-> "none", elem |-> 0]
    ELSE LET ds == DateStrOf(els, Head(selectors), 1)
         IN IF ds.str # <<>> /\ parseDate(ds.str) # Nil
            THEN [date |-> parseDate(ds.str), from |-> ds.from, elem |-> ds.elem]
            ELSE DateFrom(els, Tail(selectors))

extractPublishedDate(d) == DateFrom(d.dates, DateSelectors)

\* The values of datetime attributes and the texts of the elements.
DateValues == { <<"2024-01-15T10:30:00Z">>, <<"2024-01-15">>, <<"15.01.2024">> }

DateTexts ==
    { <<>>, <<"\n  ">>, <<"\n  ", "January", " ", "16,", " ", "2024", "\n  ">>,
      <<"2024/01/16">>, <<"yesterday">> }

\* <time datetime="..."> in .post-meta, <span class="post-date">, and a
\* <time> without the attribute in .post-meta.
DateElements ==
    [sel : {{"time[datetime]", ".post-meta time"}}, datetime : DateValues, text : DateTexts]
    \cup [sel : {{".post-date"}}, datetime : {<<>>}, text : DateTexts]
    \cup [sel : {{".post-meta time"}}, datetime : {<<>>}, text : DateTexts]

DateDoms ==
    [ h1 : {<<"My Post">>},
      title : {<<>>},
      main : { << <<[tag |-> "p", text |-> <<"x">>]>> >> },
      article : {<<>>},
      dates : UNION {[1..n -> DateElements] : n \in 0..MaxDateElems} ]

InitDate ==
    /\ InitNoFile
    /\ InitURLIdle
    /\ InitCrawlIdle
    /\ InitBootIdle
    /\ InitLateIdle
    /\ pc = [p \in 1..NumHandlers |-> "idle"]
    /\ page = [p \in 1..NumHandlers |-> 1]
    /\ visitedURLs = {}
    /\ outcome = [p \in 1..NumHandlers |-> "none"]
    /\ app = "main"
    /\ fatal = FALSE
    /\ dom \in DateDoms
    /\ articles = <<>>
    /\ stats = NoStats
    /\ handled = NoPage

\* ExtractArticle on the article page of URL PageURL(1), whose document is
\* dom: the article gets the date that extractPublishedDate returns.
ExtractDated ==
    /\ handled.op = "none"
    /\ \E r \in {ExtractArticle(visitedURLs, articles, PageURL(1), dom)},
          pd \in {extractPublishedDate(dom)} :
          /\ visitedURLs' = r.visited
          /\ articles' = r.articles
          /\ handled' = [op |-> "ExtractArticle", url |-> PageURL(1),
                         article |-> r.article, reason |-> r.reason,
                         publishedDate |-> pd.date, from |-> pd.from, elem |-> pd.elem]
    /\ UNCHANGED <<dom, stats, storeVars, urlVars, crawlVars, bootVars, lateVars, pc, page,
                   outcome, app, fatal>>

NextDate == ExtractDated

SpecDate == InitDate /\ [][NextDate]_vars

\* No layout parses the attribute or the text of any element of the page.
NothingParses(els) ==
    \A i \in 1..Len(els) : parseDate(els[i].datetime) = Nil /\ parseDate(els[i].text) = Nil

\* The elements of the page matched by a selector, in document order.
Matched(els, selector) == SelectSeq(els, LAMBDA el : selector \in el.sel)

\* C31: a date that cannot be parsed never fails the extraction: when no
\* layout parses any date string of the page, the article is still
\* returned and has no published date; and a datetime attribute is used in
\* preference to the text: a date is taken from the text only of an element
\* without the attribute, and the parsable attribute of the first
\* <time datetime> element is the date of the article.
C31_DateNeverFails ==
    handled.op = "ExtractArticle" =>
        /\ handled.article # Nil
        /\ NothingParses(dom.dates) => handled.publishedDate = Nil
        /\ handled.from = "text" => dom.dates[handled.elem].datetime = <<>>
        /\ \A t \in {Matched(dom.dates, "time[datetime]")} :
              (t # <<>> /\ parseDate(t[1].datetime) # Nil) =>
                  handled.publishedDate = parseDate(t[1].datetime)

\* A page whose first <time> element has a parsable attribute and a text
\* that parses to another day: the date of the article is the attribute's.
C31_Witness ==
    /\ handled.op = "ExtractArticle"
    /\ handled.article # Nil
    /\ Len(dom.dates) = MaxDateElems
    /\ dom.dates[1].datetime = <<"2024-01-15">>
    /\ dom.dates[1].text = <<"2024/01/16">>
    /\ handled.from = "datetime"
    /\ handled.publishedDate = [day |-> "2024-01-15", time |-> "00:00:00"]

\* A page whose only date strings are an attribute and a text that no
\* layout parses: the article is returned without a date.
C31_WitnessUnparsable ==
    /\ handled.op = "ExtractArticle"
    /\ handled.article # Nil
    /\ Len(dom.dates) = 1
    /\ dom.dates[1].datetime = <<"15.01.2024">>
    /\ dom.dates[1].text = <<"yesterday">>
    /\ handled.publishedDate = Nil

(***************************************************************************)
(* RetryMiddleware (SpecRetry): the error callback on requests that fail.  *)
(* A request started by Collector.Visit has a context of its own; a        *)
(* request made by e.Request.Visit in a callback has the context of the    *)
(* request whose page the callback runs on.  The collector is asynchronous *)
(* (colly.Async(true)): the callbacks of different requests overlap, and   *)
(* Ctx.GetAny and Ctx.Put are atomic each, not together.  In retry, has    *)
(* and ctx are the key "retry_count" of each context (is it set, its       *)
(* value), count is the local variable of each callback, failed and first  *)
(* record the count read at the first failure of each request.             *)
(***************************************************************************)
NumRequests == 2      \* requests that fail
MaxRetriesCfg == 2    \* greatest maxRetries handed to RetryMiddleware
MaxAttempts == 4      \* fetches of one request, the last of which succeeds

RetryRequests == 1..NumRequests

\* The request contexts: two start URLs, or two links found on one page.
Contexts ==
    { [r \in RetryRequests |-> r], [r \in RetryRequests |-> 1] }

InitRetry ==
    /\ InitStatic
    /\ InitURLIdle
    /\ InitPageIdle
    /\ InitCrawlIdle
    /\ InitBootIdle
    /\ proc = NoSignal
    /\ \E c \in Contexts, m \in 1..MaxRetriesCfg :
          retry = [maxRetries |-> m,
                   ctxOf |-> c,
                   has |-> [k \in RetryRequests |-> FALSE],
                   ctx |-> [k \in RetryRequests |-> 0],
                   pc |-> [r \in RetryRequests |-> "fetch"],
                   count |-> [r \in RetryRequests |-> 0],
                   failed |-> [r \in RetryRequests |-> FALSE],
                   first |-> [r \in RetryRequests |-> 0],
                   retries |-> [r \in RetryRequests |-> 0],
                   attempts |-> [r \in RetryRequests |-> 1]]

RetryFrame ==
    UNCHANGED <<storeVars, handlerVars, urlVars, pageVars, crawlVars, bootVars, proc>>

\* The fetch of request r succeeds: no error callback.
FetchSucceeds(r) ==
    /\ retry.pc[r] = "fetch"
    /\ retry' = [retry EXCEPT !.pc[r] = "done"]
    /\ RetryFrame

\* The fetch of request r fails: colly calls the error callback.  (At
\* most MaxAttempts - 1 fetches of one request fail.)
FetchFails(r) ==
    /\ retry.pc[r] = "fetch"
    /\ retry.attempts[r] < MaxAttempts
    /\ retry' = [retry EXCEPT !.pc[r] = "GetAny"]
    /\ RetryFrame

\* retryCount := r.Request.Ctx.GetAny("retry_count"); nil is read as 0.
RetryGetAny(r) ==
    /\ retry.pc[r] = "GetAny"
    /\ \E c \in {IF retry.has[retry.ctxOf[r]] THEN retry.ctx[retry.ctxOf[r]] ELSE 0} :
          retry' = [retry EXCEPT !.pc[r] = "Put", !.count[r] = c,
                                 !.failed[r] = TRUE,
                                 !.first[r] = IF retry.failed[r] THEN @ ELSE c]
    /\ RetryFrame

\* if count < maxRetries { Ctx.Put("retry_count", count+1) ... } else
\* { log.Printf("Max retries exceeded ...") }: the callback goes on to its
\* time.Sleep, or returns.
RetryPut(r) ==
    /\ retry.pc[r] = "Put"
    /\ retry' = IF retry.count[r] < retry.maxRetries
                THEN [retry EXCEPT !.ctx[retry.ctxOf[r]] = retry.count[r] + 1,
                                   !.has[retry.ctxOf[r]] = TRUE,
                                   !.pc[r] = "Sleep"]
                ELSE [retry EXCEPT !.pc[r] = "gaveUp"]
    /\ RetryFrame

\* time.Sleep(time.Duration(count+1) * time.Second) is over and
\* r.Request.Retry() starts the fetch again.
RetryRetry(r) ==
    /\ retry.pc[r] = "Sleep"
    /\ retry' = [retry EXCEPT !.retries[r] = @ + 1,
                              !.attempts[r] = @ + 1,
                              !.pc[r] = "fetch"]
    /\ RetryFrame

NextRetry ==
    \E r \in RetryRequests :
        \/ FetchSucceeds(r)
        \/ FetchFails(r)
        \/ RetryGetAny(r)
        \/ RetryPut(r)
        \/ RetryRetry(r)

SpecRetry == InitRetry /\ [][NextRetry]_vars

\* C39: RetryMiddleware makes at most maxRetries retries of a request: the
\* count it reads at the first failure of the request is 0, the count in
\* the context of the request is the number of retries made of it and never
\* exceeds maxRetries, and a request is given up only after maxRetries
\* retries of it.
C39_AtMostMaxRetries ==
    \A r \in RetryRequests :
        /\ retry.retries[r] <= retry.maxRetries
        /\ retry.first[r] = 0
        /\ retry.ctx[retry.ctxOf[r]] <= retry.maxRetries
        /\ retry.pc[r] = "gaveUp" => retry.retries[r] = retry.maxRetries

\* Every request has a context of its own.
OwnContexts == \A r, q \in RetryRequests : retry.ctxOf[r] = retry.ctxOf[q] => r = q

\* C39 for requests that share no context, with the count equal to the
\* number of retries.
C39_OwnContext ==
    OwnContexts =>
        /\ C39_AtMostMaxRetries
        /\ \A r \in RetryRequests :
              retry.pc[r] \in {"fetch", "done", "gaveUp"} =>
                  retry.retries[r] = retry.ctx[retry.ctxOf[r]]

\* A request given up at its first failure, without a retry: the context it
\* shares holds the count of another request.
C39_NoRetryAtAll ==
    \E r \in RetryRequests :
        /\ retry.pc[r] = "gaveUp"
        /\ retry.retries[r] = 0
        /\ retry.first[r] = retry.maxRetries

\* A request retried more often than maxRetries.
C39_TooManyRetries ==
    \E r \in RetryRequests : retry.retries[r] > retry.maxRetries

====
